---------------------------- MODULE Spec2Model ----------------------------
(***************************************************************************)
(* A model of puffs-gen-c, the C backend of the Puffs transpiler           *)
(* (src/unnamed/part_000), and of the C code it emits.                     *)
(*                                                                         *)
(* Strings are sequences of one-character strings, so that the name        *)
(* mangler and the prefix tests work on characters as the Go code does.    *)
(* The output buffer is a sequence of lines; a line is a record            *)
(* [k, name, text, a, b, x]: its kind, the name and the expression text it *)
(* carries, its two numbers and the statement it leaves the function with. *)
(***************************************************************************)
EXTENDS Integers, Sequences, FiniteSets, TLC

VARIABLES
    pkgName,      \* gen.pkgName
    files,        \* gen.files: the top-level declarations, in order
    declIdx,      \* forEachStatus: how many declarations have been visited
    statusList,   \* gen.statusList
    statusMap,    \* gen.statusMap: message -> status
    buffer,       \* gen.buffer
    phase,        \* where generate() is: "gather", "header", "impl", "done", "failed"
    err,          \* the error generate() returned ("" when none)
    perFunc,      \* gen.perFunc
    mem,          \* the C program's memory: the struct *self points to, by field path
    io,           \* the C program's memory: the buffers a_src and a_dst point to
    call,         \* the last call of an emitted function: [fn, arg, ret, ...]
    hist          \* what the calls so far have done to the struct

genVars == <<pkgName, files, declIdx, statusList, statusMap, buffer, phase, err, perFunc>>
runVars == <<mem, io, call, hist>>
vars == <<genVars, runVars>>

---------------------------------------------------------------------------
(* Bounds of the model. *)

\* The longest list of top-level status declarations.
MaxDecls == 2

---------------------------------------------------------------------------
(* Characters and strings. *)

UpperChars == <<"A","B","C","D","E","F","G","H","I","J","K","L","M",
                "N","O","P","Q","R","S","T","U","V","W","X","Y","Z">>
LowerChars == <<"a","b","c","d","e","f","g","h","i","j","k","l","m",
                "n","o","p","q","r","s","t","u","v","w","x","y","z">>
DigitChars == <<"0","1","2","3","4","5","6","7","8","9">>

Range(s) == {s[i] : i \in DOMAIN s}

IndexOf(s, c) == CHOOSE i \in DOMAIN s : s[i] = c

HasPrefix(s, p) == Len(s) >= Len(p) /\ SubSeq(s, 1, Len(p)) = p

Quote == "\""

S_status == <<"s","t","a","t","u","s"," ">>
S_error  == <<"e","r","r","o","r"," ">>
S_puffs  == <<"p","u","f","f","s","_">>
S_colon  == <<":"," ">>
S_unknown == <<"u","n","k","n","o","w","n"," ","s","t","a","t","u","s">>

userDefinedStatusBase == 128

builtInStatuses == <<
    S_status \o <<"o","k">>,
    S_error  \o <<"b","a","d"," ","v","e","r","s","i","o","n">>,
    S_error  \o <<"b","a","d"," ","r","e","c","e","i","v","e","r">>,
    S_error  \o <<"b","a","d"," ","a","r","g","u","m","e","n","t">>,
    S_error  \o <<"c","o","n","s","t","r","u","c","t","o","r"," ","n","o","t"," ","c","a","l","l","e","d">>,
    S_error  \o <<"u","n","e","x","p","e","c","t","e","d"," ","E","O","F">>,
    S_status \o <<"s","h","o","r","t"," ","r","e","a","d">>,
    S_status \o <<"s","h","o","r","t"," ","w","r","i","t","e">>,
    S_error  \o <<"c","l","o","s","e","d"," ","f","o","r"," ","w","r","i","t","e","s">> >>

\* gen.cName: the prefix puffs_<pkg>_, then the name with upper case letters
\* lowered, lower case letters, digits and '_' kept, ' ' turned into '_', and
\* every other character dropped.
cNameChar(r) ==
    IF r \in Range(UpperChars) THEN <<LowerChars[IndexOf(UpperChars, r)]>>
    ELSE IF r \in Range(LowerChars) \cup Range(DigitChars) \cup {"_"} THEN <<r>>
    ELSE IF r = " " THEN <<"_">>
    ELSE <<>>

RECURSIVE cNameTail(_)
cNameTail(name) ==
    IF name = <<>> THEN <<>>
    ELSE cNameChar(Head(name)) \o cNameTail(Tail(name))

cName(pkg, name) == S_puffs \o pkg \o <<"_">> \o cNameTail(name)

---------------------------------------------------------------------------
(* The inputs: package names and status declarations. *)

PkgNames == { <<"f","o","o">>, <<"g","z">> }

\* Status messages as the tokenizer hands them over: quoted string literals,
\* two of which differ in case only, and one token that is not a quoted literal.
Messages == { <<Quote,"b","a","d"," ","m","a","g","i","c",Quote>>,
              <<Quote,"E","O","F",Quote>>,
              <<Quote,"e","o","f",Quote>>,
              <<"b","a","d">> }

KeyStatus == "status"
KeyError  == "error"

StatusDecls == [kind : {"KStatus"}, keyword : {KeyStatus, KeyError}, message : Messages]

RECURSIVE SeqsUpTo(_, _)
SeqsUpTo(S, n) ==
    IF n = 0 THEN { <<>> }
    ELSE LET shorter == SeqsUpTo(S, n - 1)
         IN  shorter \cup { Append(s, x) : s \in {t \in shorter : Len(t) = n - 1}, x \in S }

\* A line of output: its kind k, the name it carries, the text of its
\* expression, its numbers a and b and, for a line that leaves the function,
\* the way out x.
LineT(k, name, text, a, b, x) ==
    [k |-> k, name |-> name, text |-> text, a |-> a, b |-> b, x |-> x]

LineX(k, name, a, b, x) == LineT(k, name, <<>>, a, b, x)

Line(k, name, a, b) == LineX(k, name, a, b, "")

NoCall == [fn |-> "", arg |-> 0, ret |-> <<>>]

\* perFunc{}: the zero value of the per-function scratch state.
NoPerFunc == [funk |-> <<>>, jumpTargets |-> <<>>, tempW |-> 0, tempR |-> 0,
              public |-> FALSE, suspendible |-> FALSE]

NoIO == <<>>

NoHist == [n |-> 0, mismatch |-> FALSE]

---------------------------------------------------------------------------
(* The AST (lang/ast, lang/token) as far as the backend reads it.  A node  *)
(* that may be absent is a sequence of zero or one nodes.                  *)

aPrefix == "a_"
fPrefix == "f_"
tPrefix == "t_"
vPrefix == "v_"

replaceNothing          == FALSE
replaceCallSuspendibles == TRUE

parenthesesMandatory == FALSE
parenthesesOptional  == TRUE

maxTemp == 10000

\* ast.MaxExprDepth and ast.MaxBodyDepth.
MaxExprDepth == 255
MaxBodyDepth == 255

\* Type expressions: a name, "ptr T" or "[N] T".
NoBounds == << <<>>, <<>> >>

TypeName(nm) ==
    [kind |-> "KTypeExpr", decorator |-> "", name |-> nm, inner |-> <<>>,
     arrayLength |-> 0, bounds |-> NoBounds]

\* A refined numeric type T[lo..hi]; an absent bound is the empty sequence.
TypeRefined(nm, lo, hi) == [TypeName(nm) EXCEPT !.bounds = <<lo, hi>>]

IsRefined(t) == t.decorator = "" /\ t.bounds # NoBounds

TypePtr(t) ==
    [kind |-> "KTypeExpr", decorator |-> "KeyPtr", name |-> "", inner |-> <<t>>,
     arrayLength |-> 0, bounds |-> NoBounds]

TypeArray(len, t) ==
    [kind |-> "KTypeExpr", decorator |-> "KeyOpenBracket", name |-> "", inner |-> <<t>>,
     arrayLength |-> len, bounds |-> NoBounds]

\* Expressions: ID0 is the operator, ID1 the identifier.
Expr(id0, id1, lhs, mhs, rhs, args) ==
    [kind |-> "KExpr", id0 |-> id0, id1 |-> id1, lhs |-> lhs, mhs |-> mhs, rhs |-> rhs,
     args |-> args, callSuspendible |-> FALSE, callImpure |-> FALSE,
     constValue |-> <<>>, mtype |-> TypeName("u8")]

Ident(name) == Expr("", name, <<>>, <<>>, <<>>, <<>>)

Const(v) == [Ident("") EXCEPT !.constValue = <<v>>]

BoolConst(v) == [Ident("") EXCEPT !.constValue = <<v>>, !.mtype = TypeName("bool")]

Dot(l, name) == Expr("KeyDot", name, <<l>>, <<>>, <<>>, <<>>)

Index(l, r) == Expr("KeyOpenBracket", "", <<l>>, <<>>, <<r>>, <<>>)

Slice(l, m, r) == Expr("KeyColon", "", <<l>>, m, r, <<>>)

UnaryOp(op, r) == Expr(op, "", <<>>, <<>>, <<r>>, <<>>)

BinaryOp(op, l, r) == Expr(op, "", <<l>>, <<>>, <<r>>, <<>>)

As(l, t) == Expr("KeyXBinaryAs", "", <<l>>, <<>>, <<t>>, <<>>)

\* The operands of an associative operator are KExpr nodes in Args.
AssociativeOp(op, operands) == Expr(op, "", <<>>, <<>>, <<>>, operands)

\* The arguments of a call are KArg nodes in Args, each holding its value.
Arg(name, value) == [kind |-> "KArg", name |-> name, value |-> value]

Call(callee, args) == Expr("KeyOpenParen", "", <<callee>>, <<>>, <<>>, args)

CallSuspendible(callee, args) ==
    [Call(callee, args) EXCEPT !.callSuspendible = TRUE, !.callImpure = TRUE]

UnaryOps == {"KeyXUnaryPlus", "KeyXUnaryMinus", "KeyXUnaryNot"}

BinaryOps == {"KeyXBinaryPlus", "KeyXBinaryMinus", "KeyXBinaryStar", "KeyXBinarySlash",
              "KeyXBinaryShiftL", "KeyXBinaryShiftR", "KeyXBinaryAmp", "KeyXBinaryAmpHat",
              "KeyXBinaryPipe", "KeyXBinaryHat", "KeyXBinaryNotEq", "KeyXBinaryLessThan",
              "KeyXBinaryLessEq", "KeyXBinaryEqEq", "KeyXBinaryGreaterEq",
              "KeyXBinaryGreaterThan", "KeyXBinaryAnd", "KeyXBinaryOr", "KeyXBinaryAs"}

AssociativeOps == {"KeyXAssociativePlus", "KeyXAssociativeStar", "KeyXAssociativeAmp",
                   "KeyXAssociativePipe", "KeyXAssociativeHat", "KeyXAssociativeAnd",
                   "KeyXAssociativeOr"}

\* ID0().Flags() & (FlagsUnaryOp | FlagsBinaryOp | FlagsAssociativeOp)
OpFlags(id0) ==
    IF id0 \in UnaryOps THEN "FlagsUnaryOp"
    ELSE IF id0 \in BinaryOps THEN "FlagsBinaryOp"
    ELSE IF id0 \in AssociativeOps THEN "FlagsAssociativeOp"
    ELSE "0"

\* Expr.SubNodes(): LHS, MHS, RHS, those present.
SubNodes(n) == n.lhs \o n.mhs \o n.rhs

\* Expr.Suspendible(): the expression is or contains a suspendible call.
RECURSIVE Suspendible(_)
Suspendible(n) ==
    /\ n.kind = "KExpr"
    /\ \/ n.callSuspendible
       \/ \E i \in DOMAIN SubNodes(n) : Suspendible(SubNodes(n)[i])
       \/ \E i \in DOMAIN n.args :
             Suspendible(IF n.args[i].kind = "KArg" THEN n.args[i].value ELSE n.args[i])

IsBool(t) == t.decorator = "" /\ t.name = "bool"

\* Statements.
AssertStmt == [kind |-> "KAssert"]

Assign(lhs, op, rhs) == [kind |-> "KAssign", lhs |-> lhs, operator |-> op, rhs |-> rhs]

Return(keyword, message) == [kind |-> "KReturn", keyword |-> keyword, message |-> message]

Var(name, xtype, value) == [kind |-> "KVar", name |-> name, xtype |-> xtype, value |-> value]

\* An if statement; elseIf is the next link of the chain, if any.
If(condition, bodyIfTrue, bodyIfFalse, elseIf) ==
    [kind |-> "KIf", condition |-> condition, bodyIfTrue |-> bodyIfTrue,
     bodyIfFalse |-> bodyIfFalse, elseIf |-> elseIf]

\* A while statement; id stands for the node's address, which jumps refer to.
While(id, condition, body, hasContinue, hasBreak) ==
    [kind |-> "KWhile", id |-> id, condition |-> condition, body |-> body,
     hasContinue |-> hasContinue, hasBreak |-> hasBreak]

Jump(keyword, jumpTarget) == [kind |-> "KJump", keyword |-> keyword, jumpTarget |-> jumpTarget]

\* Top-level declarations.
Field(name, xtype, dv) == [kind |-> "KField", name |-> name, xtype |-> xtype, defaultValue |-> dv]

Struct(name, public, suspendible, fields) ==
    [kind |-> "KStruct", name |-> name, public |-> public, suspendible |-> suspendible,
     fields |-> fields]

Func(receiver, name, public, suspendible, in, body) ==
    [kind |-> "KFunc", receiver |-> receiver, name |-> name, public |-> public,
     suspendible |-> suspendible, in |-> in, body |-> body]

cTypeNames ==
    [k \in {"i8", "i16", "i32", "i64", "u8", "u16", "u32", "u64", "usize", "bool",
            "buf1", "buf2"} |->
        CASE k = "i8" -> "int8_t"    [] k = "i16" -> "int16_t"
          [] k = "i32" -> "int32_t"  [] k = "i64" -> "int64_t"
          [] k = "u8" -> "uint8_t"   [] k = "u16" -> "uint16_t"
          [] k = "u32" -> "uint32_t" [] k = "u64" -> "uint64_t"
          [] k = "usize" -> "size_t" [] k = "bool" -> "bool"
          [] k = "buf1" -> "puffs_base_buf1" [] k = "buf2" -> "puffs_base_buf2"]

cOpNames(k) ==
    CASE k = "KeyEq" -> " = "           [] k = "KeyPlusEq" -> " += "
      [] k = "KeyMinusEq" -> " -= "     [] k = "KeyStarEq" -> " *= "
      [] k = "KeySlashEq" -> " /= "     [] k = "KeyShiftLEq" -> " <<= "
      [] k = "KeyShiftREq" -> " >>= "   [] k = "KeyAmpEq" -> " &= "
      [] k = "KeyAmpHatEq" -> " no_such_amp_hat_C_operator "
      [] k = "KeyPipeEq" -> " |= "      [] k = "KeyHatEq" -> " ^= "
      [] k = "KeyXUnaryPlus" -> "+"     [] k = "KeyXUnaryMinus" -> "-"
      [] k = "KeyXUnaryNot" -> "!"
      [] k = "KeyXBinaryPlus" -> " + "  [] k = "KeyXBinaryMinus" -> " - "
      [] k = "KeyXBinaryStar" -> " * "  [] k = "KeyXBinarySlash" -> " / "
      [] k = "KeyXBinaryShiftL" -> " << " [] k = "KeyXBinaryShiftR" -> " >> "
      [] k = "KeyXBinaryAmp" -> " & "
      [] k = "KeyXBinaryAmpHat" -> " no_such_amp_hat_C_operator "
      [] k = "KeyXBinaryPipe" -> " | "  [] k = "KeyXBinaryHat" -> " ^ "
      [] k = "KeyXBinaryNotEq" -> " != " [] k = "KeyXBinaryLessThan" -> " < "
      [] k = "KeyXBinaryLessEq" -> " <= " [] k = "KeyXBinaryEqEq" -> " == "
      [] k = "KeyXBinaryGreaterEq" -> " >= " [] k = "KeyXBinaryGreaterThan" -> " > "
      [] k = "KeyXBinaryAnd" -> " && "  [] k = "KeyXBinaryOr" -> " || "
      [] k = "KeyXBinaryAs" -> " no_such_as_C_operator "
      [] k = "KeyXAssociativePlus" -> " + " [] k = "KeyXAssociativeStar" -> " * "
      [] k = "KeyXAssociativeAmp" -> " & "  [] k = "KeyXAssociativePipe" -> " | "
      [] k = "KeyXAssociativeHat" -> " ^ "  [] k = "KeyXAssociativeAnd" -> " && "
      [] k = "KeyXAssociativeOr" -> " || "
      [] OTHER -> ""

---------------------------------------------------------------------------
(* The collector: gen.generate, gen.forEachStatus, gen.gatherStatuses. *)

\* gen.gatherStatuses on one status declaration: "" or the error, and the
\* status it appends.
gatherStatusesErr(n) ==
    LET msg == n.message
    IN  IF Len(msg) < 2 \/ msg[1] # Quote \/ msg[Len(msg)] # Quote
        THEN "bad status message" ELSE ""

gatherStatusesStatus(pkg, n) ==
    LET msg     == SubSeq(n.message, 2, Len(n.message) - 1)
        isError == n.keyword = KeyError
        prefix  == IF isError THEN S_error ELSE S_status
    IN  [name |-> cName(pkg, prefix \o msg), msg |-> msg, isError |-> isError]

Init ==
    /\ pkgName \in PkgNames
    /\ files \in SeqsUpTo(StatusDecls, MaxDecls)
    /\ declIdx = 0
    /\ statusList = <<>>
    /\ statusMap = <<>>
    /\ buffer = <<>>
    /\ phase = "gather"
    /\ err = ""
    /\ perFunc = NoPerFunc
    /\ mem = <<>>
    /\ io = NoIO
    /\ call = NoCall
    /\ hist = NoHist

\* One iteration of forEachStatus(bothPubPri, gatherStatuses): a declaration
\* that is not a status is passed over.
GatherStatuses ==
    /\ phase = "gather"
    /\ declIdx < Len(files)
    /\ LET n == files[declIdx + 1]
           e == gatherStatusesErr(n)
       IN  IF n.kind # "KStatus"
           THEN UNCHANGED <<err, phase, statusList, statusMap>>
           ELSE IF e # ""
           THEN /\ err' = e
                /\ phase' = "failed"
                /\ UNCHANGED <<statusList, statusMap>>
           ELSE LET s == gatherStatusesStatus(pkgName, n)
                IN  /\ statusList' = Append(statusList, s)
                    /\ statusMap' = (n.message :> s) @@ statusMap
                    /\ UNCHANGED <<err, phase>>
    /\ declIdx' = declIdx + 1
    /\ UNCHANGED <<pkgName, files, buffer, perFunc, runVars>>

\* forEachStatus has returned nil: generate() goes on to genHeader.
GatherDone ==
    /\ phase = "gather"
    /\ declIdx = Len(files)
    /\ phase' = "header"
    /\ UNCHANGED <<pkgName, files, declIdx, statusList, statusMap, buffer, err, perFunc, runVars>>

---------------------------------------------------------------------------
(* Type lowering: gen.writeCTypeName. *)

maxNumPointers == 16

Only(S) == CHOOSE x \in S : TRUE

\* v := <value>; then Op(v).
With(v, Op(_)) == Only({ Op(x) : x \in {v} })

\* if err := <step>; err != nil { return err }; then Op, on the state the step left.
Then(st, Op(_)) == Only({ IF s.err # "" THEN s ELSE Op(s) : s \in {st} })

RECURSIVE SkipArrays(_)
SkipArrays(x) ==
    IF x # <<>> /\ x[1].decorator = "KeyOpenBracket" THEN SkipArrays(x[1].inner) ELSE x

\* The pointer loop: the number of "ptr"s and the innermost type, or the error.
RECURSIVE CountPointers(_, _)
CountPointers(innermost, numPointers) ==
    IF innermost # <<>> /\ innermost[1].inner # <<>>
    THEN IF innermost[1].decorator = "KeyPtr"
         THEN IF numPointers = maxNumPointers
              THEN [err |-> "cannot convert Puffs type to C: too many ptr's",
                    numPointers |-> numPointers, innermost |-> innermost]
              ELSE CountPointers(innermost[1].inner, numPointers + 1)
         ELSE [err |-> "cannot convert Puffs type to C",
               numPointers |-> numPointers, innermost |-> innermost]
    ELSE [err |-> "", numPointers |-> numPointers, innermost |-> innermost]

RECURSIVE ArrayExtents(_)
ArrayExtents(x) ==
    IF x # <<>> /\ x[1].decorator = "KeyOpenBracket"
    THEN <<"[", ToString(x[1].arrayLength), "]">> \o ArrayExtents(x[1].inner)
    ELSE <<>>

\* The C declarator of varNamePrefix+varName with type n: [err, toks].
writeCTypeName(n, varNamePrefix, varName) ==
    LET Named(p) ==
            LET k == p.innermost[1].name
                base == IF k \in DOMAIN cTypeNames
                        THEN <<cTypeNames[k]>>
                        ELSE S_puffs \o pkgName \o <<"_", n.name>>
            IN  IF p.err # "" THEN [err |-> p.err, toks |-> <<>>]
                ELSE [err |-> "",
                      toks |-> base \o [i \in 1..p.numPointers |-> "*"]
                               \o <<" ", varNamePrefix, varName>> \o ArrayExtents(<<n>>)]
    IN  Only({ Named(p) : p \in {CountPointers(SkipArrays(<<n>>), 0)} })

---------------------------------------------------------------------------
(* The emitter's state while it lowers one function: the buffer, the text  *)
(* of the line being written, the scratch state and the error.             *)

Fail(st, e) == [st EXCEPT !.err = e]

\* g.writes, g.writeb, g.printf: more text for the current line.
Writes(st, toks) == [st EXCEPT !.toks = @ \o toks]

\* The current line is complete: it becomes a line of kind k.
EndLine(st, k, x) ==
    [st EXCEPT !.buf = Append(@, LineT(k, <<>>, st.toks, 0, 0, x)), !.toks = <<>>]

Emit(st, l) == [st EXCEPT !.buf = Append(@, l)]

\* "puffs_PKG" followed by the rest of a name printed by format.
PkgIdent(rest) == S_puffs \o pkgName \o rest

---------------------------------------------------------------------------
(* Expression lowering: gen.writeExpr and its helpers. *)

isLowBits(n) ==
    /\ n.id0 = "KeyOpenParen" /\ ~n.callImpure /\ Len(n.args) = 1
    /\ n.lhs[1].id0 = "KeyDot" /\ n.lhs[1].id1 = "low_bits"

RECURSIVE writeExpr(_, _, _, _, _)
RECURSIVE writeExprOther(_, _, _, _)
RECURSIVE writeExprBinaryOp(_, _, _, _, _)
RECURSIVE writeExprAssociativeOp(_, _, _, _, _)

writeExprUnaryOp(st, n, rp, depth) == st

writeExprAs(st, lhs, rhs, rp, depth) ==
    With(writeCTypeName(rhs, "", ""), LAMBDA ty :
        IF ty.err # "" THEN Fail(Writes(st, <<"((">>), ty.err)
        ELSE Then(writeExpr(Writes(st, <<"((">> \o ty.toks \o <<")(">>), lhs, rp,
                            parenthesesMandatory, depth),
                  LAMBDA s1 : Writes(s1, <<"))">>)))

writeExprBinaryOp(st, n, rp, pp, depth) ==
    IF n.id0 = "KeyXBinaryAs" THEN writeExprAs(st, n.lhs[1], n.rhs[1], rp, depth)
    ELSE Then(writeExpr(IF pp = parenthesesMandatory THEN Writes(st, <<"(">>) ELSE st,
                        n.lhs[1], rp, parenthesesMandatory, depth), LAMBDA s1 :
         Then(writeExpr(Writes(s1, <<cOpNames(n.id0)>>), n.rhs[1], rp,
                        parenthesesMandatory, depth), LAMBDA s2 :
         IF pp = parenthesesMandatory THEN Writes(s2, <<")">>) ELSE s2))

\* The loop over n.Args(), from operand i on.
writeExprAssociativeOp(st, n, i, rp, depth) ==
    IF i > Len(n.args) THEN st
    ELSE Then(writeExpr(IF i # 1 THEN Writes(st, <<cOpNames(n.id0)>>) ELSE st,
                        n.args[i], rp, parenthesesMandatory, depth),
              LAMBDA s1 : writeExprAssociativeOp(s1, n, i + 1, rp, depth))

writeExprOther(st, n, rp, depth) ==
    LET unrecognized == Fail(st, "unrecognized token.Key for writeExprOther")
    IN  CASE n.id0 = "" ->
                IF n.id1 = "this" THEN Writes(st, <<"self->private_impl">>)
                ELSE Writes(st, <<vPrefix, n.id1>>)
          [] n.id0 = "KeyOpenParen" ->
                IF isLowBits(n)
                THEN Then(writeExpr(Writes(st, <<"PUFFS_LOW_BITS(">>),
                                    n.lhs[1].lhs[1], rp, parenthesesMandatory, depth),
                          LAMBDA s1 :
                     Then(writeExpr(Writes(s1, <<",">>), n.args[1].value, rp,
                                    parenthesesMandatory, depth),
                          LAMBDA s2 : Writes(s2, <<")">>)))
                ELSE unrecognized
          [] n.id0 = "KeyOpenBracket" ->
                Then(writeExpr(st, n.lhs[1], rp, parenthesesMandatory, depth), LAMBDA s1 :
                Then(writeExpr(Writes(s1, <<"[">>), n.rhs[1], rp, parenthesesOptional, depth),
                     LAMBDA s2 : Writes(s2, <<"]">>)))
          [] n.id0 = "KeyColon" -> unrecognized
          [] n.id0 = "KeyDot" ->
                IF n.lhs[1].id1 = "in" THEN Writes(st, <<aPrefix, n.id1>>)
                ELSE Then(writeExpr(st, n.lhs[1], rp, parenthesesMandatory, depth),
                          LAMBDA s1 : Writes(s1, <<".", fPrefix, n.id1>>))
          [] OTHER -> unrecognized

writeExpr(st, n, rp, pp, depth0) ==
    IF depth0 > MaxExprDepth THEN Fail(st, "expression recursion depth too large")
    ELSE
    LET depth == depth0 + 1
    IN  IF rp = replaceCallSuspendibles /\ n.callSuspendible
        THEN IF st.perFunc.tempR >= st.perFunc.tempW
             THEN Fail(st, "internal error: temporary variable count out of sync")
             ELSE [Writes(st, <<tPrefix, ToString(st.perFunc.tempR)>>)
                      EXCEPT !.perFunc.tempR = @ + 1]
        ELSE IF n.constValue # <<>>
        THEN IF ~IsBool(n.mtype) THEN Writes(st, <<ToString(n.constValue[1])>>)
             ELSE IF n.constValue[1] = 0 THEN Writes(st, <<"false">>)
             ELSE IF n.constValue[1] = 1 THEN Writes(st, <<"true">>)
             ELSE Fail(st, "has type bool but constant value is neither 0 or 1")
        ELSE CASE OpFlags(n.id0) = "0" -> writeExprOther(st, n, rp, depth)
               [] OpFlags(n.id0) = "FlagsUnaryOp" -> writeExprUnaryOp(st, n, rp, depth)
               [] OpFlags(n.id0) = "FlagsBinaryOp" -> writeExprBinaryOp(st, n, rp, pp, depth)
               [] OpFlags(n.id0) = "FlagsAssociativeOp" ->
                      writeExprAssociativeOp(st, n, 1, rp, depth)

---------------------------------------------------------------------------
(* Suspendible-call lowering: gen.writeSuspendibles, gen.writeCallSuspendibles. *)

isInSrcReadU8(n) ==
    /\ n.id0 = "KeyOpenParen" /\ n.callSuspendible /\ Len(n.args) = 0
    /\ n.lhs[1].id0 = "KeyDot" /\ n.lhs[1].id1 = "read_u8"
    /\ n.lhs[1].lhs[1].id0 = "KeyDot" /\ n.lhs[1].lhs[1].id1 = "src"
    /\ n.lhs[1].lhs[1].lhs[1].id0 = "" /\ n.lhs[1].lhs[1].lhs[1].id1 = "in"

isInDst(n, methodName) ==
    /\ n.id0 = "KeyOpenParen" /\ n.callSuspendible /\ Len(n.args) = 1
    /\ n.lhs[1].id0 = "KeyDot" /\ n.lhs[1].id1 = methodName
    /\ n.lhs[1].lhs[1].id0 = "KeyDot" /\ n.lhs[1].lhs[1].id1 = "dst"
    /\ n.lhs[1].lhs[1].lhs[1].id0 = "" /\ n.lhs[1].lhs[1].lhs[1].id1 = "in"

isThisDecodeHeader(n) ==
    /\ n.id0 = "KeyOpenParen" /\ n.callSuspendible /\ Len(n.args) = 1
    /\ n.lhs[1].id0 = "KeyDot" /\ n.lhs[1].id1 = "decode_header"
    /\ n.lhs[1].lhs[1].id0 = "" /\ n.lhs[1].lhs[1].id1 = "this"

\* How a hoisted block leaves the function when the call fails.
FailureExit(pf) == IF pf.public /\ pf.suspendible THEN "goto cleanup0;" ELSE "return status;"

\* if (a_src->ri >= a_src->wi) { status = ...; <exit> }   T t_N = a_src->ptr[a_src->ri++];
writeReadU8(st, n) ==
    IF st.perFunc.tempW > maxTemp THEN Fail(st, "too many temporary variables required")
    ELSE LET temp == st.perFunc.tempW
             s1 == Emit([st EXCEPT !.perFunc.tempW = @ + 1],
                        LineX("read_u8_check",
                              PkgIdent(<<"_","e","r","r","o","r","_","u","n","e","x","p","e","c","t","e","d","_","e","o","f">>) \o <<" : ">>
                                  \o PkgIdent(<<"_","s","t","a","t","u","s","_","s","h","o","r","t","_","r","e","a","d">>),
                              0, 0, FailureExit(st.perFunc)))
         IN  With(writeCTypeName(n.mtype, tPrefix, ToString(temp)), LAMBDA ty :
                 IF ty.err # "" THEN Fail(s1, ty.err)
                 ELSE Emit(s1, LineT("read_u8_load", <<>>, ty.toks, temp, 0, "")))

\* The two checks of in.dst.write?, the memmove and the advance of wi.
writeWrite(st, n) ==
    [st EXCEPT !.buf = @ \o
        << LineX("write_check_closed", PkgIdent(<<"_","e","r","r","o","r","_","c","l","o","s","e","d","_","f","o","r","_","w","r","i","t","e","s">>),
                 0, 0, FailureExit(st.perFunc)),
           LineX("write_check_space", PkgIdent(<<"_","s","t","a","t","u","s","_","s","h","o","r","t","_","w","r","i","t","e">>),
                 0, 0, FailureExit(st.perFunc)),
           Line("write_memmove", <<>>, 0, 0),
           Line("write_advance", <<>>, 0, 0) >>]

\* if (a_dst->wi >= a_dst->len) { status = ...; <exit> }   a_dst->ptr[a_dst->wi++] = <x>;
writeWriteU8(st, n, depth) ==
    Then(writeExpr(Emit(st, LineX("write_u8_check", PkgIdent(<<"_","s","t","a","t","u","s","_","s","h","o","r","t","_","w","r","i","t","e">>),
                                  0, 0, FailureExit(st.perFunc))),
                   n.args[1].value, replaceCallSuspendibles, parenthesesMandatory, depth),
         LAMBDA s2 : EndLine(s2, "write_u8_store", ""))

\* status = puffs_PKG_RECV_decode_header(self, a_src);   if (status) { goto cleanup0; }
writeDecodeHeader(st, n) ==
    [st EXCEPT !.buf = @ \o
        << Line("decode_header_call",
                PkgIdent(<<"_", st.perFunc.funk.receiver>> \o <<"_","d","e","c","o","d","e","_","h","e","a","d","e","r">>), 0, 0),
           LineX("decode_header_check", <<>>, 0, 0, "goto cleanup0;") >>]

RECURSIVE writeCallSuspendibles(_, _, _)
RECURSIVE writeCallSuspendiblesEach(_, _, _, _)

\* The loops over SubNodes() and Args(): the KExpr nodes among them, in order.
writeCallSuspendiblesEach(st, nodes, i, depth) ==
    IF i > Len(nodes) THEN st
    ELSE IF nodes[i].kind = "KExpr"
         THEN Then(writeCallSuspendibles(st, nodes[i], depth),
                   LAMBDA s1 : writeCallSuspendiblesEach(s1, nodes, i + 1, depth))
         ELSE writeCallSuspendiblesEach(st, nodes, i + 1, depth)

writeCallSuspendibles(st, n, depth) ==
    IF ~n.callSuspendible
    THEN IF depth > MaxExprDepth THEN Fail(st, "expression recursion depth too large")
         ELSE Then(writeCallSuspendiblesEach(st, SubNodes(n), 1, depth + 1),
                   LAMBDA s1 : writeCallSuspendiblesEach(s1, n.args, 1, depth + 1))
    ELSE IF isInSrcReadU8(n) THEN writeReadU8(st, n)
    ELSE IF isInDst(n, "write") THEN writeWrite(st, n)
    ELSE IF isInDst(n, "write_u8") THEN writeWriteU8(st, n, depth)
    ELSE IF isThisDecodeHeader(n) THEN writeDecodeHeader(st, n)
    ELSE Fail(st, "cannot convert Puffs call to C")

writeSuspendibles(st, n, depth) ==
    IF ~Suspendible(n) THEN st ELSE writeCallSuspendibles(st, n, depth)

---------------------------------------------------------------------------
(* Statement lowering: gen.jumpTarget, gen.writeVars, gen.writeStatement. *)

maxJumpTargets == 1000000
maxCloseCurly  == 1000

\* The label of loop n (by its node id): [err, jt, jumpTargets].
jumpTarget(pf, id) ==
    IF \E i \in DOMAIN pf.jumpTargets : pf.jumpTargets[i] = id
    THEN [err |-> "", jt |-> (CHOOSE i \in DOMAIN pf.jumpTargets : pf.jumpTargets[i] = id) - 1,
          jumpTargets |-> pf.jumpTargets]
    ELSE IF Len(pf.jumpTargets) = maxJumpTargets
         THEN [err |-> "too many jump targets", jt |-> 0, jumpTargets |-> pf.jumpTargets]
         ELSE [err |-> "", jt |-> Len(pf.jumpTargets),
               jumpTargets |-> Append(pf.jumpTargets, id)]

RECURSIVE writeVars(_, _, _)
RECURSIVE writeVarsFrom(_, _, _, _)
RECURSIVE writeVarsIf(_, _, _)
RECURSIVE writeVarsIfTrueOnly(_, _, _)

\* The loop over the chain without the call on the else bodies.
writeVarsIfTrueOnly(st, o, depth) ==
    IF o = <<>> THEN st
    ELSE Then(writeVars(st, o[1].bodyIfTrue, depth), LAMBDA s1 :
         writeVarsIfTrueOnly(s1, o[1].elseIf, depth))

\* The loop "for o := o.If(); o != nil; o = o.ElseIf()".
writeVarsIf(st, o, depth) ==
    IF o = <<>> THEN st
    ELSE Then(writeVars(st, o[1].bodyIfTrue, depth), LAMBDA s1 :
         Then(writeVars(s1, o[1].bodyIfFalse, depth), LAMBDA s2 :
         writeVarsIf(s2, o[1].elseIf, depth)))

\* The loop over the block, from statement i on; depth is already incremented.
writeVarsFrom(st, block, i, depth) ==
    IF i > Len(block) THEN st
    ELSE LET o == block[i]
         IN  Then(CASE o.kind = "KIf" -> writeVarsIf(st, <<o>>, depth)
                    [] o.kind = "KVar" ->
                          With(writeCTypeName(o.xtype, vPrefix, o.name), LAMBDA ty :
                              IF ty.err # "" THEN Fail(st, ty.err)
                              ELSE Emit(st, LineT("var_decl", <<>>, ty.toks, 0, 0, "")))
                    [] o.kind = "KWhile" -> writeVars(st, o.body, depth)
                    [] OTHER -> st,
                  LAMBDA s1 : writeVarsFrom(s1, block, i + 1, depth))

writeVars(st, block, depth) ==
    IF depth > MaxBodyDepth THEN Fail(st, "body recursion depth too large")
    ELSE writeVarsFrom(st, block, 1, depth + 1)

\* A return statement: "return;", "status = NAME; goto cleanup0;" or "return NAME;".
writeReturnSwapped(st, n) ==
    LET ret == IF n.keyword = "" THEN PkgIdent(<<"_","s","t","a","t","u","s","_","o","k">>)
               ELSE IF n.message \in DOMAIN statusMap THEN statusMap[n.message].name
               ELSE <<>>
    IN  IF ~st.perFunc.suspendible THEN Emit(st, LineX("return_void", <<>>, 0, 0, "return;"))
        ELSE IF ~st.perFunc.public
             THEN Emit(st, LineX("status_goto", ret, 0, 0, "goto cleanup0;"))
             ELSE Emit(st, LineX("return_name", ret, 0, 0, "return NAME;"))

writeReturn(st, n) ==
    LET ret == IF n.keyword = "" THEN PkgIdent(<<"_","s","t","a","t","u","s","_","o","k">>)
               ELSE IF n.message \in DOMAIN statusMap THEN statusMap[n.message].name
               ELSE <<>>
    IN  IF ~st.perFunc.suspendible THEN Emit(st, LineX("return_void", <<>>, 0, 0, "return;"))
        ELSE IF st.perFunc.public
             THEN Emit(st, LineX("status_goto", ret, 0, 0, "goto cleanup0;"))
             ELSE Emit(st, LineX("return_name", ret, 0, 0, "return NAME;"))

writeAssign(st, n, depth) ==
    Then(writeSuspendibles(st, n.lhs, depth), LAMBDA s1 :
    Then(writeSuspendibles(s1, n.rhs, depth), LAMBDA s2 :
    Then(writeExpr(s2, n.lhs, replaceCallSuspendibles, parenthesesMandatory, depth),
         LAMBDA s3 :
    Then(writeExpr(Writes(s3, <<cOpNames(n.operator)>>), n.rhs,
                   replaceCallSuspendibles, parenthesesMandatory, depth),
         LAMBDA s4 : EndLine(s4, "assign", "")))))

writeExprStatement(st, n, depth) ==
    Then(writeSuspendibles(st, n, depth), LAMBDA s1 :
        IF n.callSuspendible THEN s1
        ELSE Fail(s1, "TODO: generate code for foo() when foo is not a ? call-suspendible"))

writeJump(st, n) ==
    With(jumpTarget(st.perFunc, n.jumpTarget), LAMBDA r :
        IF r.err # "" THEN Fail(st, r.err)
        ELSE Emit([st EXCEPT !.perFunc.jumpTargets = r.jumpTargets],
                  Line("goto_label",
                       <<IF n.keyword = "KeyBreak" THEN "break" ELSE "continue">>, r.jt, 0)))

writeVar(st, n, depth) ==
    Then(IF n.value # <<>> THEN writeSuspendibles(st, n.value[1], depth) ELSE st,
         LAMBDA s1 :
        IF n.xtype.decorator = "KeyOpenBracket"
        THEN IF n.value # <<>>
             THEN Fail(s1, "TODO: array initializers for non-zero default values")
             ELSE Emit(s1, LineT("var_array_init", <<>>, <<vPrefix, n.name>>,
                                     n.xtype.arrayLength, 0, ""))
        ELSE Then(IF n.value # <<>>
                  THEN writeExpr(Writes(s1, <<vPrefix, n.name, " = ">>), n.value[1],
                                 replaceCallSuspendibles, parenthesesMandatory, 0)
                  ELSE Writes(s1, <<vPrefix, n.name, " = ", "0">>),
                  LAMBDA s3 : EndLine(s3, "var_init", "")))

RECURSIVE writeStatement(_, _, _)
RECURSIVE writeStatements(_, _, _, _)
RECURSIVE writeIf(_, _, _, _, _)
RECURSIVE writeIfTurn(_, _, _, _, _)

\* for _, o := range block { writeStatement(o, depth) }, from statement i on.
writeStatements(st, block, i, depth) ==
    IF i > Len(block) THEN st
    ELSE Then(writeStatement(st, block[i], depth),
              LAMBDA s1 : writeStatements(s1, block, i + 1, depth))

\* for ; nCloseCurly > 0; nCloseCurly-- { g.writes("}\n") }
CloseCurlies(st, nCloseCurly) ==
    [st EXCEPT !.buf = @ \o [i \in 1..nCloseCurly |->
                                LineT("close_curly", <<>>, <<"}\n">>, 0, 0, "")]]

\* One turn of the loop over an if / else-if chain, on the link n: the
\* state s after it, the count of braces to close, and whether the loop is
\* left (an else body was written, or there is no else-if).
writeIfTurn(st, n, first, nCloseCurly, depth) ==
    LET susp == Suspendible(n.condition)
        opened == susp /\ ~first
        nCC == IF opened THEN nCloseCurly + 1 ELSE nCloseCurly
        s0 == IF opened THEN Emit(st, LineT("open_curly", <<>>, <<"{">>, 0, 0, "")) ELSE st
        Turn(s, left) == [s |-> s, nCloseCurly |-> nCC, left |-> left]
    IN  IF opened /\ nCloseCurly = maxCloseCurly
        THEN [s |-> Fail(s0, "too many nested if's"), nCloseCurly |-> nCloseCurly,
              left |-> TRUE]
        ELSE
        With(Then(IF susp THEN writeSuspendibles(s0, n.condition, depth) ELSE s0, LAMBDA s1 :
             Then(writeExpr(Writes(s1, <<"if (">>), n.condition, replaceCallSuspendibles,
                            parenthesesOptional, 0), LAMBDA s2 :
             writeStatements(EndLine(Writes(s2, <<") {\n">>), "if_open", ""),
                             n.bodyIfTrue, 1, depth))), LAMBDA s4 :
            IF s4.err # "" THEN Turn(s4, TRUE)
            ELSE IF Len(n.bodyIfFalse) > 0
            THEN Turn(writeStatements(Emit(s4, LineT("else_open", <<>>, <<"} else {">>,
                                                     0, 0, "")),
                                      n.bodyIfFalse, 1, depth), TRUE)
            ELSE IF n.elseIf = <<>> THEN Turn(s4, TRUE)
            ELSE Turn(Emit(s4, LineT("else", <<>>, <<"} else ">>, 0, 0, "")), FALSE))

\* The loop over the chain, and the closing braces after it.
writeIf(st, n, first, nCloseCurly, depth) ==
    With(writeIfTurn(st, n, first, nCloseCurly, depth), LAMBDA r :
        IF r.s.err # "" THEN r.s
        ELSE IF r.left THEN CloseCurlies(r.s, r.nCloseCurly)
        ELSE writeIf(r.s, n.elseIf[1], FALSE, r.nCloseCurly, depth))

\* The label of the loop, for "continue" and again for "break": the second
\* lookup finds the first one's entry, or makes the entry.
writeWhileLabel(st, n, wanted, k) ==
    IF ~wanted THEN st
    ELSE With(jumpTarget(st.perFunc, n.id), LAMBDA r :
             IF r.err # "" THEN Fail(st, r.err)
             ELSE Emit([st EXCEPT !.perFunc.jumpTargets = r.jumpTargets],
                       Line(k, <<>>, r.jt, 0)))

\* writeWhile with the break label written before the loop's closing brace.
writeWhileBreakInside(st, n, depth) ==
    Then(writeWhileLabel(st, n, n.hasContinue, "label_continue"), LAMBDA s1 :
    Then(writeExpr(Writes(s1, <<"while (">>), n.condition, replaceCallSuspendibles,
                   parenthesesOptional, 0), LAMBDA s2 :
    Then(writeStatements(EndLine(Writes(s2, <<") {\n">>), "while_open", ""),
                         n.body, 1, depth), LAMBDA s4 :
    With(writeWhileLabel(s4, n, n.hasBreak, "label_break"), LAMBDA s5 :
    Emit(s5, LineT("close_curly", <<>>, <<"}\n">>, 0, 0, ""))))))

writeWhile(st, n, depth) ==
    Then(writeWhileLabel(st, n, n.hasContinue, "label_continue"), LAMBDA s1 :
    Then(writeExpr(Writes(s1, <<"while (">>), n.condition, replaceCallSuspendibles,
                   parenthesesOptional, 0), LAMBDA s2 :
    Then(writeStatements(EndLine(Writes(s2, <<") {\n">>), "while_open", ""),
                         n.body, 1, depth), LAMBDA s4 :
    With(Emit(s4, LineT("close_curly", <<>>, <<"}\n">>, 0, 0, "")), LAMBDA s5 :
    writeWhileLabel(s5, n, n.hasBreak, "label_break")))))

writeStatement(st, n, depth0) ==
    IF depth0 > MaxBodyDepth THEN Fail(st, "body recursion depth too large")
    ELSE
    LET depth == depth0 + 1
    IN  CASE n.kind = "KAssert" -> st
          [] n.kind = "KAssign" -> writeAssign(st, n, depth)
          [] n.kind = "KExpr"   -> writeExprStatement(st, n, depth)
          [] n.kind = "KIf"     -> writeIf(st, n, TRUE, 1, depth)
          [] n.kind = "KJump"   -> writeJump(st, n)
          [] n.kind = "KReturn" -> writeReturn(st, n)
          [] n.kind = "KVar"    -> writeVar(st, n, depth)
          [] n.kind = "KWhile"  -> writeWhile(st, n, depth)
          [] OTHER -> Fail(st, "unrecognized ast.Kind for writeStatement")

---------------------------------------------------------------------------
(* Structs, constructors and destructors: gen.writeStruct,                 *)
(* gen.writeCtorSignature, gen.writeCtorPrototype, gen.writeCtorImpl.      *)

\* g.structList: the struct declarations, which the files list in
\* topological order (ast.TopologicalSortStructs keeps such an order).
structList == SelectSeq(files, LAMBDA d : d.kind = "KStruct")

\* g.structMap[name] != nil
inStructMap(name) == \E i \in DOMAIN structList : structList[i].name = name

structOf(name) == structList[CHOOSE i \in DOMAIN structList : structList[i].name = name]

\* x.Innermost() == x: the type is a bare name.
IsInnermost(x) == x.inner = <<>>

EmitAll(st, ls) == [st EXCEPT !.buf = @ \o ls]

RECURSIVE writeStructFields(_, _, _)
writeStructFields(st, fields, i) ==
    IF i > Len(fields) THEN st
    ELSE With(writeCTypeName(fields[i].xtype, fPrefix, fields[i].name), LAMBDA ty :
             IF ty.err # "" THEN Fail(st, ty.err)
             ELSE With(Emit(st, LineT("struct_field", <<fields[i].name>>, ty.toks, 0, 0, "")),
                       LAMBDA s1 : writeStructFields(s1, fields, i + 1)))

\* typedef struct { struct { [status; magic;] fields } private_impl; } puffs_PKG_NAME;
writeStruct(st, n) ==
    LET s1 == Emit(st, Line("struct_open", PkgIdent(<<"_", n.name>>), 0, 0))
        s2 == IF n.suspendible
              THEN EmitAll(s1, << Line("struct_field_status", PkgIdent(<<"_","s","t","a","t","u","s">>), 0, 0),
                                  Line("struct_field_magic", <<>>, 0, 0) >>)
              ELSE s1
    IN  Then(writeStructFields(s2, n.fields, 1),
             LAMBDA s3 : Emit(s3, Line("struct_close", PkgIdent(<<"_", n.name>>), 0, 0)))

CtorName(structName) == PkgIdent(<<"_", structName>> \o <<"_","c","o","n","s","t","r","u","c","t","o","r">>)
DtorName(structName) == PkgIdent(<<"_", structName>> \o <<"_","d","e","s","t","r","u","c","t","o","r">>)

\* Both prototypes, of a struct that is not suspendible too.
writeCtorPrototypeAlways(st, n) ==
    EmitAll(st, << Line("ctor_prototype", CtorName(n.name), IF n.public THEN 1 ELSE 0, 0),
                   Line("dtor_prototype", DtorName(n.name), 0, 0) >>)

\* Both prototypes of a suspendible struct, none of another.
writeCtorPrototype(st, n) ==
    IF ~n.suspendible THEN st
    ELSE EmitAll(st, << Line("ctor_prototype", CtorName(n.name), IF n.public THEN 1 ELSE 0, 0),
                        Line("dtor_prototype", DtorName(n.name), 0, 0) >>)

\* The fields the constructor assigns a default value to.
ctorDefaults(n) ==
    LET fs == SelectSeq(n.fields, LAMBDA f : f.defaultValue # <<>>)
    IN  [i \in 1..Len(fs) |-> Line("ctor_default", <<fs[i].name>>, fs[i].defaultValue[1], 0)]

\* The fields whose constructor (destructor) is called: those of a type that
\* is a bare name naming a struct of the package.
ctorSubStructs(n, k, nameOf(_)) ==
    LET fs == SelectSeq(n.fields,
                        LAMBDA f : IsInnermost(f.xtype) /\ inStructMap(f.xtype.name))
    IN  [i \in 1..Len(fs) |->
            LineT(k, nameOf(fs[i].xtype.name), <<fPrefix, fs[i].name>>, 0, 0, "")]

ctorVersionCheckZeroFirst(n) ==
    << Line("ctor_memset_if_not_zeroed", <<>>, 0, 0),
       LineX("ctor_check_version", PkgIdent(<<"_","e","r","r","o","r","_","b","a","d","_","v","e","r","s","i","o","n">>), 0, 0, "return;"),
       Line("ctor_set_magic", <<>>, 0, 0) >>

ctorVersionCheckMagicFirst(n) ==
    << LineX("ctor_check_version", PkgIdent(<<"_","e","r","r","o","r","_","b","a","d","_","v","e","r","s","i","o","n">>), 0, 0, "return;"),
       Line("ctor_set_magic", <<>>, 0, 0),
       Line("ctor_memset_if_not_zeroed", <<>>, 0, 0) >>

\* if (puffs_version != PUFFS_VERSION) { self->private_impl.status = ...; return; }
\* if (for_internal_use_only != PUFFS_ALREADY_ZEROED) { memset(self, 0, sizeof(*self)); }
\* self->private_impl.magic = PUFFS_MAGIC;
ctorVersionCheck(n) ==
    << LineX("ctor_check_version", PkgIdent(<<"_","e","r","r","o","r","_","b","a","d","_","v","e","r","s","i","o","n">>), 0, 0, "return;"),
       Line("ctor_memset_if_not_zeroed", <<>>, 0, 0),
       Line("ctor_set_magic", <<>>, 0, 0) >>

writeCtorImpl(st, n) ==
    IF ~n.suspendible THEN st
    ELSE EmitAll(st,
            << Line("ctor_open", CtorName(n.name), 0, 0),
               LineX("if_not_self", <<>>, 0, 0, "return;") >>
            \o ctorVersionCheck(n)
            \o ctorDefaults(n)
            \o ctorSubStructs(n, "ctor_call", CtorName)
            \o << Line("func_close", <<>>, 0, 0),
                  Line("dtor_open", DtorName(n.name), 0, 0),
                  LineX("if_not_self", <<>>, 0, 0, "return;") >>
            \o ctorSubStructs(n, "dtor_call", DtorName)
            \o << Line("func_close", <<>>, 0, 0) >>)

---------------------------------------------------------------------------
(* Functions: gen.writeFuncSignature, gen.writeFuncPrototype,              *)
(* gen.writeFuncImplArgChecks, gen.writeFuncImpl.                          *)

\* The C name of function n.
FuncName(n) ==
    PkgIdent((IF n.receiver # "" THEN <<"_", n.receiver>> ELSE <<>>) \o <<"_", n.name>>)

RECURSIVE writeFuncParams(_, _, _, _)
writeFuncParams(st, fields, i, comma) ==
    IF i > Len(fields) THEN st
    ELSE With(writeCTypeName(fields[i].xtype, aPrefix, fields[i].name), LAMBDA ty :
         With(IF comma THEN Writes(st, <<",">>) ELSE st, LAMBDA s0 :
             IF ty.err # "" THEN Fail(s0, ty.err)
             ELSE writeFuncParams(Writes(s0, ty.toks), fields, i + 1, TRUE)))

\* The signature, as the text of the line being written.
writeFuncSignature(st, n) ==
    LET s1 == Writes(st, (IF n.suspendible THEN PkgIdent(<<"_","s","t","a","t","u","s">>) ELSE <<"void">>)
                         \o <<" ">> \o FuncName(n) \o <<"(">>)
        s2 == IF n.receiver # ""
              THEN Writes(s1, PkgIdent(<<"_", n.receiver>>) \o <<" *self">>)
              ELSE s1
    IN  Then(writeFuncParams(s2, n.in, 1, n.receiver # ""),
             LAMBDA s3 : Writes(s3, <<")">>))

writeFuncPrototype(st, n) ==
    Then(writeFuncSignature(st, n), LAMBDA s1 :
        [s1 EXCEPT !.buf = Append(@, LineT("func_prototype", FuncName(n), s1.toks, 0, 0, "")),
                   !.toks = <<>>])

\* numTypeBounds, for the numeric types whose bounds are 32-bit integers.
numTypeBounds ==
    [k \in {"i8", "i16", "i32", "u8", "u16", "usize", "bool"} |->
        CASE k = "i8"    -> <<-128, 127>>
          [] k = "i16"   -> <<-32768, 32767>>
          [] k = "i32"   -> <<-2147483647 - 1, 2147483647>>
          [] k = "u8"    -> <<0, 255>>
          [] k = "u16"   -> <<0, 65535>>
          [] k = "usize" -> <<0, 0>>
          [] k = "bool"  -> <<0, 1>>]

\* The bounds of a refined type that need a check: bound i is dropped when it
\* equals the numeric type's own bound.
argBounds(oTyp) ==
    [i \in 1..2 |->
        IF oTyp.bounds[i] # <<>> /\ oTyp.name \in DOMAIN numTypeBounds
              /\ oTyp.bounds[i][1] = numTypeBounds[oTyp.name][i]
        THEN <<>>
        ELSE oTyp.bounds[i]]

\* The checks of one argument: "!a_x", or "a_x < lo" and "a_x > hi".
argChecks(o) ==
    IF o.xtype.decorator = "KeyPtr" THEN << <<"!", aPrefix, o.name>> >>
    ELSE IF IsRefined(o.xtype)
    THEN LET b == argBounds(o.xtype)
         IN  (IF b[1] # <<>> THEN << <<aPrefix, o.name, " < ", ToString(b[1][1])>> >> ELSE <<>>)
             \o (IF b[2] # <<>> THEN << <<aPrefix, o.name, " > ", ToString(b[2][1])>> >> ELSE <<>>)
    ELSE <<>>

RECURSIVE allArgChecks(_, _)
allArgChecks(fields, i) ==
    IF i > Len(fields) THEN <<>> ELSE argChecks(fields[i]) \o allArgChecks(fields, i + 1)

RECURSIVE joinChecks(_, _)
joinChecks(checks, i) ==
    IF i > Len(checks) THEN <<>>
    ELSE (IF i # 1 THEN <<" || ">> ELSE <<>>) \o checks[i] \o joinChecks(checks, i + 1)

\* if (<checks>) { <set the status to bad argument and leave> }
writeFuncImplArgChecks(st, n) ==
    LET name == PkgIdent(<<"_","e","r","r","o","r","_","b","a","d","_","a","r","g","u","m","e","n","t">>)
    IN  With(allArgChecks(n.in, 1), LAMBDA checks :
        IF Len(checks) = 0 THEN st
        ELSE IF n.suspendible
             THEN Emit(st, LineT("if_bad_args", name, joinChecks(checks, 1), Len(checks), 0,
                                 "goto cleanup0;"))
        ELSE IF n.receiver # ""
             THEN Emit(st, LineT("if_bad_args_self", name, joinChecks(checks, 1), Len(checks), 0,
                                 "return;"))
        ELSE Emit(st, LineT("if_bad_args_void", <<>>, joinChecks(checks, 1), Len(checks), 0,
                            "return;")))

\* The checks of the receiver and of the previous status.
writeFuncImplPrologueNoLatch(st, n) ==
    LET s1 == IF n.public /\ n.receiver # ""
              THEN Emit(st, IF n.suspendible
                            THEN LineX("if_not_self", PkgIdent(<<"_","e","r","r","o","r","_","b","a","d","_","r","e","c","e","i","v","e","r">>),
                                       0, 0, "return NAME;")
                            ELSE LineX("if_not_self", <<>>, 0, 0, "return;"))
              ELSE st
        notCalled == PkgIdent(<<"_","e","r","r","o","r","_","c","o","n","s","t","r","u","c","t","o","r","_","n","o","t","_","c","a","l","l","e","d">>)
    IN  IF n.suspendible
        THEN LET s2 == IF n.receiver # ""
                       THEN Emit(s1, Line("status_decl_self", <<>>, 0, 0))
                       ELSE Emit(s1, Line("status_decl", PkgIdent(<<"_","s","t","a","t","u","s","_","o","k">>), 0, 0))
             IN  IF n.public
                 THEN Emit(s2, LineX("if_bad_magic", notCalled, 0, 0, "goto cleanup0;"))
                 ELSE s2
        ELSE IF n.receiver # "" /\ n.public
        THEN EmitAll(s1, << LineX("if_self_status_error", <<>>, 0, 0, "return;"),
                            LineX("if_bad_magic_self", notCalled, 0, 0, "return;") >>)
        ELSE s1

writeFuncImplPrologueNoWriteBack(st, n) ==
    LET s1 == IF n.public /\ n.receiver # ""
              THEN Emit(st, IF n.suspendible
                            THEN LineX("if_not_self", PkgIdent(<<"_","e","r","r","o","r","_","b","a","d","_","r","e","c","e","i","v","e","r">>),
                                       0, 0, "return NAME;")
                            ELSE LineX("if_not_self", <<>>, 0, 0, "return;"))
              ELSE st
        notCalled == PkgIdent(<<"_","e","r","r","o","r","_","c","o","n","s","t","r","u","c","t","o","r","_","n","o","t","_","c","a","l","l","e","d">>)
    IN  IF n.suspendible
        THEN LET s2 == IF n.receiver # ""
                       THEN LET s21 == Emit(s1, Line("status_decl_self", <<>>, 0, 0))
                            IN  IF n.public
                                THEN Emit(s21, LineX("if_status_error", <<>>, 0, 0,
                                                     "return status;"))
                                ELSE s21
                       ELSE Emit(s1, Line("status_decl", PkgIdent(<<"_","s","t","a","t","u","s","_","o","k">>), 0, 0))
             IN  IF n.public
                 THEN Emit(s2, LineX("if_bad_magic", notCalled, 0, 0, "return NAME;"))
                 ELSE s2
        ELSE IF n.receiver # "" /\ n.public
        THEN EmitAll(s1, << LineX("if_self_status_error", <<>>, 0, 0, "return;"),
                            LineX("if_bad_magic_self", notCalled, 0, 0, "return;") >>)
        ELSE s1

writeFuncImplPrologue(st, n) ==
    LET s1 == IF n.public /\ n.receiver # ""
              THEN Emit(st, IF n.suspendible
                            THEN LineX("if_not_self", PkgIdent(<<"_","e","r","r","o","r","_","b","a","d","_","r","e","c","e","i","v","e","r">>),
                                       0, 0, "return NAME;")
                            ELSE LineX("if_not_self", <<>>, 0, 0, "return;"))
              ELSE st
        notCalled == PkgIdent(<<"_","e","r","r","o","r","_","c","o","n","s","t","r","u","c","t","o","r","_","n","o","t","_","c","a","l","l","e","d">>)
    IN  IF n.suspendible
        THEN LET s2 == IF n.receiver # ""
                       THEN LET s21 == Emit(s1, Line("status_decl_self", <<>>, 0, 0))
                            IN  IF n.public
                                THEN Emit(s21, LineX("if_status_error", <<>>, 0, 0,
                                                     "return status;"))
                                ELSE s21
                       ELSE Emit(s1, Line("status_decl", PkgIdent(<<"_","s","t","a","t","u","s","_","o","k">>), 0, 0))
             IN  IF n.public
                 THEN Emit(s2, LineX("if_bad_magic", notCalled, 0, 0, "goto cleanup0;"))
                 ELSE s2
        ELSE IF n.receiver # "" /\ n.public
        THEN EmitAll(s1, << LineX("if_self_status_error", <<>>, 0, 0, "return;"),
                            LineX("if_bad_magic_self", notCalled, 0, 0, "return;") >>)
        ELSE s1

\* cleanup0: self->private_impl.status = status;   return status;
writeFuncImplEpilogue(st) ==
    LET s1 == IF st.perFunc.suspendible
              THEN Emit(IF st.perFunc.public
                        THEN Emit(st, Line("cleanup0_label", <<>>, 0, 0))
                        ELSE st,
                        LineX("return_status", <<>>, 0, 0, "return status;"))
              ELSE st
    IN  Emit(s1, Line("func_close", <<>>, 0, 0))

\* The whole function: signature, prologue, argument checks, local variables,
\* body and epilogue.
\* writeFuncImpl without the reset of the scratch state on entry.
writeFuncImplNoReset(buf, n) ==
    Then(writeFuncSignature([buf |-> buf, toks |-> <<>>, err |-> "",
                             perFunc |-> [perFunc EXCEPT !.funk = n]], n), LAMBDA s1 :
    With([s1 EXCEPT !.buf = Append(@, LineT("func_open", FuncName(n), s1.toks, 0, 0, "")),
                    !.toks = <<>>,
                    !.perFunc.public = n.public,
                    !.perFunc.suspendible = n.suspendible], LAMBDA s2 :
    With(writeFuncImplPrologue(s2, n), LAMBDA s3 :
    With(IF n.public THEN writeFuncImplArgChecks(s3, n) ELSE s3, LAMBDA s4 :
    Then(writeVars(s4, n.body, 0), LAMBDA s5 :
    Then(writeStatements(s5, n.body, 1, 0), LAMBDA s6 :
    With(writeFuncImplEpilogue(s6), LAMBDA s7 :
        IF s7.perFunc.tempW # s7.perFunc.tempR
        THEN Fail(s7, "internal error: temporary variable count out of sync")
        ELSE s7)))))))

writeFuncImpl(buf, n) ==
    Then(writeFuncSignature([buf |-> buf, toks |-> <<>>, err |-> "",
                             perFunc |-> [NoPerFunc EXCEPT !.funk = n]], n), LAMBDA s1 :
    With([s1 EXCEPT !.buf = Append(@, LineT("func_open", FuncName(n), s1.toks, 0, 0, "")),
                    !.toks = <<>>,
                    !.perFunc.public = n.public,
                    !.perFunc.suspendible = n.suspendible], LAMBDA s2 :
    With(writeFuncImplPrologue(s2, n), LAMBDA s3 :
    With(IF n.public THEN writeFuncImplArgChecks(s3, n) ELSE s3, LAMBDA s4 :
    Then(writeVars(s4, n.body, 0), LAMBDA s5 :
    Then(writeStatements(s5, n.body, 1, 0), LAMBDA s6 :
    With(writeFuncImplEpilogue(s6), LAMBDA s7 :
        IF s7.perFunc.tempW # s7.perFunc.tempR
        THEN Fail(s7, "internal error: temporary variable count out of sync")
        ELSE s7)))))))

---------------------------------------------------------------------------
(* The header emitter: gen.genHeader. *)

nudgeOf(isError) == IF isError THEN 1 ELSE 0

\* The lines of "typedef enum { ... }": NAME = <a>[+1],
genHeaderEnumMissingBase(pkg, sl) ==
    [i \in 1..Len(builtInStatuses) |->
        Line("enum", cName(pkg, builtInStatuses[i]), -2 * (i - 1),
             nudgeOf(HasPrefix(builtInStatuses[i], S_error)))]
    \o
    [i \in 1..Len(sl) |->
        Line("enum", sl[i].name, -2 * (i - 1), nudgeOf(sl[i].isError))]

genHeaderEnum(pkg, sl) ==
    [i \in 1..Len(builtInStatuses) |->
        Line("enum", cName(pkg, builtInStatuses[i]), -2 * (i - 1),
             nudgeOf(HasPrefix(builtInStatuses[i], S_error)))]
    \o
    [i \in 1..Len(sl) |->
        Line("enum", sl[i].name, -2 * (userDefinedStatusBase + (i - 1)), nudgeOf(sl[i].isError))]

\* forEachFunc(v, f) visits these functions, in this order.
funcsOf(v) ==
    SelectSeq(files, LAMBDA d : /\ d.kind = "KFunc"
                                /\ ~(v = "pubOnly" /\ ~d.public)
                                /\ ~(v = "priOnly" /\ d.public))

RECURSIVE writeStructs(_, _)
writeStructs(st, i) ==
    IF i > Len(structList) THEN st
    ELSE Then(writeStruct(st, structList[i]), LAMBDA s1 : writeStructs(s1, i + 1))

\* The prototypes of the public (or of the private) structs' constructors.
RECURSIVE writeCtorPrototypes(_, _, _)
writeCtorPrototypes(st, public, i) ==
    IF i > Len(structList) THEN st
    ELSE With(IF structList[i].public = public
              THEN writeCtorPrototype(st, structList[i]) ELSE st,
              LAMBDA s1 : writeCtorPrototypes(s1, public, i + 1))

RECURSIVE writeFuncPrototypes(_, _, _)
writeFuncPrototypes(st, fs, i) ==
    IF i > Len(fs) THEN st
    ELSE Then(writeFuncPrototype(st, fs[i]), LAMBDA s1 : writeFuncPrototypes(s1, fs, i + 1))

NewState(buf) == [buf |-> buf, toks |-> <<>>, err |-> "", perFunc |-> perFunc]

\* The marker line written twice.
writeHeaderEndsHereTwice(buf) ==
    buf \o <<Line("header_ends_here", <<>>, 0, 0), Line("header_ends_here", <<>>, 0, 0)>>

\* g.writes("// C HEADER ENDS HERE.\n\n") in generate().
writeHeaderEndsHere(buf) == buf \o <<Line("header_ends_here", <<>>, 0, 0)>>

\* genHeader and, when it returns nil, the marker line generate() writes.
genHeader ==
    /\ phase = "header"
    /\ \E s3 \in { Then(writeStructs(
                            NewState(buffer \o <<Line("include_guard_open", pkgName, 0, 0)>>
                                            \o genHeaderEnum(pkgName, statusList)), 1),
                          LAMBDA s1 :
                     Then(writeCtorPrototypes(s1, TRUE, 1), LAMBDA s2 :
                          writeFuncPrototypes(s2, funcsOf("pubOnly"), 1))) } :
           IF s3.err # ""
           THEN buffer' = s3.buf /\ err' = s3.err /\ phase' = "failed"
           ELSE /\ buffer' = writeHeaderEndsHere(
                               s3.buf \o <<Line("include_guard_close", pkgName, 0, 0)>>)
                /\ phase' = "impl"
                /\ err' = err
    /\ UNCHANGED <<pkgName, files, declIdx, statusList, statusMap, perFunc, runVars>>

---------------------------------------------------------------------------
(* The implementation emitter: gen.genImpl, the status code part. *)

\* A built-in status's message: the string without its "status " or "error " prefix.
builtInMsg(s) ==
    IF HasPrefix(s, S_status) THEN SubSeq(s, Len(S_status) + 1, Len(s))
    ELSE IF HasPrefix(s, S_error) THEN SubSeq(s, Len(S_error) + 1, Len(s))
    ELSE s

\* const char* puffs_PKG_status_strings[N] = { ... };
genImplStrings(pkg, sl) ==
    <<Line("strings_decl", pkg, Len(builtInStatuses) + Len(sl), 0)>>
    \o [i \in 1..Len(builtInStatuses) |->
            Line("string", pkg \o S_colon \o builtInMsg(builtInStatuses[i]), 0, 0)]
    \o [i \in 1..Len(sl) |-> Line("string", pkg \o S_colon \o sl[i].msg, 0, 0)]

\* The body of puffs_PKG_status_string, by the numbers printed into it:
\*   s = -(s >> 1); if (0 <= s) {
\*     if (s < <lt.a>) { return strings[s]; }
\*     s -= <sub.a>;
\*     if ((<range.a> <= s) && (s < <range.b>)) { return strings[s]; }
\*   }
\*   return "<unknown.name>";
genImplStatusStringWrongOffset(pkg, sl) ==
    << Line("ss_lt", <<>>, Len(builtInStatuses), 0),
       Line("ss_sub", <<>>, userDefinedStatusBase, 0),
       Line("ss_range", <<>>, Len(builtInStatuses), Len(builtInStatuses) + Len(sl)),
       Line("ss_unknown", pkg \o S_colon \o S_unknown, 0, 0) >>

genImplStatusString(pkg, sl) ==
    << Line("ss_lt", <<>>, Len(builtInStatuses), 0),
       Line("ss_sub", <<>>, userDefinedStatusBase - Len(builtInStatuses), 0),
       Line("ss_range", <<>>, Len(builtInStatuses), Len(builtInStatuses) + Len(sl)),
       Line("ss_unknown", pkg \o S_colon \o S_unknown, 0, 0) >>

RECURSIVE writeCtorImpls(_, _)
writeCtorImpls(st, i) ==
    IF i > Len(structList) THEN st
    ELSE With(writeCtorImpl(st, structList[i]), LAMBDA s1 : writeCtorImpls(s1, i + 1))

\* genImpl up to the function implementations.
genImpl ==
    /\ phase = "impl"
    /\ \E s3 \in { Then(writeCtorPrototypes(
                            NewState(buffer \o <<Line("status_is_error", pkgName, 1, 0)>>
                                            \o genImplStrings(pkgName, statusList)
                                            \o genImplStatusString(pkgName, statusList)),
                            FALSE, 1),
                          LAMBDA s1 :
                     Then(writeFuncPrototypes(s1, funcsOf("priOnly"), 1), LAMBDA s2 :
                          writeCtorImpls(s2, 1))) } :
           IF s3.err # ""
           THEN buffer' = s3.buf /\ err' = s3.err /\ phase' = "failed"
           ELSE /\ buffer' = s3.buf
                /\ err' = err
                /\ phase' = IF Len(funcsOf("bothPubPri")) = 0 THEN "done" ELSE "funcs"
    /\ declIdx' = 0
    /\ UNCHANGED <<pkgName, files, statusList, statusMap, perFunc, runVars>>

\* One iteration of forEachFunc(bothPubPri, writeFuncImpl), the end of genImpl.
writeFuncImplStep ==
    /\ phase = "funcs"
    /\ declIdx < Len(funcsOf("bothPubPri"))
    /\ \E s \in { writeFuncImpl(buffer, funcsOf("bothPubPri")[declIdx + 1]) } :
           /\ buffer' = s.buf
           /\ perFunc' = s.perFunc
           /\ err' = s.err
           /\ phase' = IF s.err # "" THEN "failed"
                       ELSE IF declIdx + 1 = Len(funcsOf("bothPubPri")) THEN "done"
                       ELSE "funcs"
    /\ declIdx' = declIdx + 1
    /\ UNCHANGED <<pkgName, files, statusList, statusMap, runVars>>

---------------------------------------------------------------------------
(* The emitted C, as a C compiler with 32-bit two's complement int runs it.  *)
(* TLC's own integers are 32-bit and an overflow stops the check, so the     *)
(* arithmetic below is C's int arithmetic wherever TLC evaluates it.         *)

IntMax == 2147483646 + 1
IntMin == -IntMax - 1

\* x >> 1 of a signed int: the arithmetic shift.
Shr1(x) == x \div 2

\* s & 1 of a signed int in two's complement.
And1(x) == x % 2

LinesOf(buf, k) == SelectSeq(buf, LAMBDA l : l.k = k)

\* The value a C compiler gives the enumerator "NAME = <a>" or "NAME = <a>+1".
EnumValue(l) == l.a + l.b

\* bool puffs_PKG_status_is_error(s) { return s & 1; }
c_status_is_error(buf, s) == And1(s) # 0

\* const char* puffs_PKG_status_string(s), read off the emitted text.
c_status_string(buf, s) ==
    LET tbl     == LinesOf(buf, "string")
        lt      == LinesOf(buf, "ss_lt")[1].a
        sub     == LinesOf(buf, "ss_sub")[1].a
        lo      == LinesOf(buf, "ss_range")[1].a
        hi      == LinesOf(buf, "ss_range")[1].b
        unknown == LinesOf(buf, "ss_unknown")[1].name
        s1      == -Shr1(s)
        s2      == s1 - sub
    IN  IF 0 <= s1
        THEN IF s1 < lt THEN tbl[s1 + 1].name
             ELSE IF lo <= s2 /\ s2 < hi THEN tbl[s2 + 1].name
             ELSE unknown
        ELSE unknown

\* The arguments status_string is called with: every emitted value, the values
\* next to one, the values around the gap between the built-in and the
\* user-defined statuses, and the ends of int32.
StatusArgs ==
    LET vals == { EnumValue(LinesOf(buffer, "enum")[i]) : i \in DOMAIN LinesOf(buffer, "enum") }
    IN  vals \cup { v - 1 : v \in vals } \cup { v + 1 : v \in vals }
             \cup { 2, -2 * userDefinedStatusBase + 2, IntMin, IntMax }

StatusStringCall ==
    /\ phase = "done"
    /\ \E s \in StatusArgs :
          call' = [fn |-> "status_string", arg |-> s, ret |-> c_status_string(buffer, s)]
    /\ UNCHANGED <<genVars, mem, io, hist>>

StatusIsErrorCall ==
    /\ phase = "done"
    /\ \E s \in StatusArgs :
          call' = [fn |-> "status_is_error", arg |-> s,
                   ret |-> IF c_status_is_error(buffer, s) THEN <<"1">> ELSE <<"0">>]
    /\ UNCHANGED <<genVars, mem, io, hist>>

---------------------------------------------------------------------------
(* The emitted constructors, destructors and functions, as a C program     *)
(* runs them on a struct in memory and on the two buffers.  A memory cell  *)
(* is named by its path from the struct: <<"status">>, <<"magic">>,        *)
(* <<"f_", field>>, and for an embedded struct the field's path before     *)
(* the cell's path in that struct.                                         *)

\* #define PUFFS_MAGIC (0xCB3699CCU): the 32 bits of the value, as an int.
PUFFS_MAGIC == -885614132

\* #define PUFFS_ALREADY_ZEROED (0x68602EF1U)
PUFFS_ALREADY_ZEROED == 1751134961

\* The version number of the base header; any number serves.
PUFFS_VERSION == 1

\* The null pointer, as a path no struct is at.
NULL == <<"NULL">>

\* The cells of a struct of the package, in the layout writeStruct gives it.
RECURSIVE CellsOf(_)
CellsOf(structName) ==
    LET n == structOf(structName)
        FieldCells(f) ==
            IF IsInnermost(f.xtype) /\ inStructMap(f.xtype.name)
            THEN { <<fPrefix, f.name>> \o p : p \in CellsOf(f.xtype.name) }
            ELSE { <<fPrefix, f.name>> }
    IN  (IF n.suspendible THEN { <<"status">>, <<"magic">> } ELSE {})
        \cup UNION { FieldCells(n.fields[i]) : i \in DOMAIN n.fields }

\* The value of the enumerator called name.
StatusValue(buf, name) ==
    EnumValue(buf[CHOOSE i \in DOMAIN buf : buf[i].k = "enum" /\ buf[i].name = name])

FirstIndex(s, Test(_)) == CHOOSE i \in DOMAIN s : Test(s[i]) /\ \A j \in 1..(i - 1) : ~Test(s[j])

\* The lines of the function that the line of kind k and the given name
\* opens, up to the closing brace.
BodyLines(buf, k, name) ==
    LET from == FirstIndex(buf, LAMBDA l : l.k = k /\ l.name = name)
        rest == SubSeq(buf, from, Len(buf))
    IN  SubSeq(rest, 1, FirstIndex(rest, LAMBDA l : l.k = "func_close"))

\* memset(self, 0, sizeof(*self))
Memset(m, self) ==
    [p \in DOMAIN m |-> IF HasPrefix(p, self) THEN 0 ELSE m[p]]

\* The constructor or the destructor whose lines are ls, from line pc on, on
\* st = [mem, trace]; trace lists the lines that took effect.
RECURSIVE ExecCtor(_, _, _, _, _, _)
ExecCtor(st, ls, pc, self, puffs_version, for_internal_use_only) ==
    IF pc > Len(ls) THEN st
    ELSE LET l == ls[pc]
             Go(s) == ExecCtor(s, ls, pc + 1, self, puffs_version, for_internal_use_only)
             Did(m) == [mem |-> m, trace |-> Append(st.trace, l.k)]
         IN  CASE l.k = "if_not_self" ->
                    IF self = NULL THEN st ELSE Go(st)
               [] l.k = "ctor_check_version" ->
                    IF puffs_version # PUFFS_VERSION
                    THEN Did([st.mem EXCEPT ![self \o <<"status">>] = StatusValue(buffer, l.name)])
                    ELSE Go(st)
               [] l.k = "ctor_memset_if_not_zeroed" ->
                    IF for_internal_use_only # PUFFS_ALREADY_ZEROED
                    THEN With(Did(Memset(st.mem, self)), LAMBDA s : Go(s))
                    ELSE Go(st)
               [] l.k = "ctor_set_magic" ->
                    With(Did([st.mem EXCEPT ![self \o <<"magic">>] = PUFFS_MAGIC]),
                         LAMBDA s : Go(s))
               [] l.k = "ctor_default" ->
                    With(Did([st.mem EXCEPT ![self \o <<fPrefix>> \o l.name] = l.a]),
                         LAMBDA s : Go(s))
               [] l.k = "ctor_call" ->
                    With(ExecCtor(Did(st.mem), BodyLines(buffer, "ctor_open", l.name), 1,
                                  self \o l.text, PUFFS_VERSION, PUFFS_ALREADY_ZEROED),
                         LAMBDA s : Go(s))
               [] l.k = "dtor_call" ->
                    With(ExecCtor(Did(st.mem), BodyLines(buffer, "dtor_open", l.name), 1,
                                  self \o l.text, 0, 0),
                         LAMBDA s : Go(s))
               [] OTHER -> Go(st)

\* The number a decimal token stands for.
MaxLiteral == 255

NumOf(tok) == CHOOSE v \in (0 - MaxLiteral)..MaxLiteral : ToString(v) = tok

\* The value of an operand: t_N, self->private_impl.f_NAME, v_NAME, a_NAME
\* or a literal.
EvalOperand(e, toks) ==
    CASE toks[1] = tPrefix -> e.temps[NumOf(toks[2])]
      [] toks[1] = "self->private_impl" -> e.mem[e.self \o SubSeq(toks, 3, Len(toks))]
      [] toks[1] = vPrefix -> e.vars[toks[2]]
      [] toks[1] = aPrefix -> e.args[toks[2]]
      [] OTHER -> NumOf(toks[1])

\* lvalue = v, for the lvalues self->private_impl.f_NAME and v_NAME.
Store(e, toks, v) ==
    IF toks[1] = "self->private_impl"
    THEN [e EXCEPT !.mem[e.self \o SubSeq(toks, 3, Len(toks))] = v]
    ELSE [e EXCEPT !.vars = (toks[2] :> v) @@ @]

\* "!a_x", "a_x < N" and "a_x > N", joined by " || ".
RECURSIVE EvalChecks(_, _)
EvalChecks(e, toks) ==
    IF toks = <<>> THEN FALSE
    ELSE IF toks[1] = " || " THEN EvalChecks(e, Tail(toks))
    ELSE IF toks[1] = "!"
         THEN e.args[toks[3]] = 0 \/ EvalChecks(e, SubSeq(toks, 4, Len(toks)))
    ELSE \/ toks[3] = " < " /\ e.args[toks[2]] < NumOf(toks[4])
         \/ toks[3] = " > " /\ e.args[toks[2]] > NumOf(toks[4])
         \/ EvalChecks(e, SubSeq(toks, 5, Len(toks)))

\* sizeof(self->private_impl.f_stack), for a stack of bytes.
SizeofStack(e) == Len(e.mem[e.self \o <<fPrefix, "stack">>])

\* One line of a function on e = [mem, io, status, temps, vars, args, self,
\* pc, done, ret, trace]; ls are the function's lines.
StepLine(e, ls) ==
    LET l == ls[e.pc]
        on == [e EXCEPT !.pc = @ + 1, !.trace = Append(@, l.k)]
        Ret(s, v) == [s EXCEPT !.done = TRUE, !.ret = v]
        \* the statement a line leaves the function with
        Leave(s) ==
            CASE l.x = "goto cleanup0;" ->
                    [s EXCEPT !.pc = FirstIndex(ls, LAMBDA c : c.k = "cleanup0_label")]
              [] l.x = "return status;" -> Ret(s, <<s.status>>)
              [] l.x = "return NAME;" -> Ret(s, <<StatusValue(buffer, l.name)>>)
              [] OTHER -> Ret(s, <<>>)
        src == e.io.src
        dst == e.io.dst
        eq == FirstIndex(l.text, LAMBDA t : t = " = ")
    IN  CASE l.k = "if_not_self" -> IF e.self = NULL THEN Leave(on) ELSE on
          [] l.k = "status_decl_self" -> [on EXCEPT !.status = e.mem[e.self \o <<"status">>]]
          [] l.k = "status_decl" -> [on EXCEPT !.status = StatusValue(buffer, l.name)]
          [] l.k = "if_status_error" -> IF And1(e.status) # 0 THEN Leave(on) ELSE on
          [] l.k = "if_bad_magic" ->
                IF e.mem[e.self \o <<"magic">>] # PUFFS_MAGIC
                THEN Leave([on EXCEPT !.status = StatusValue(buffer, l.name)])
                ELSE on
          [] l.k = "if_self_status_error" ->
                IF And1(e.mem[e.self \o <<"status">>]) # 0 THEN Leave(on) ELSE on
          [] l.k \in {"if_bad_magic_self", "if_bad_args_self"} ->
                IF IF l.k = "if_bad_magic_self"
                   THEN e.mem[e.self \o <<"magic">>] # PUFFS_MAGIC
                   ELSE EvalChecks(e, l.text)
                THEN Leave([on EXCEPT !.mem[e.self \o <<"status">>] =
                                          StatusValue(buffer, l.name)])
                ELSE on
          [] l.k = "if_bad_args" ->
                IF EvalChecks(e, l.text)
                THEN Leave([on EXCEPT !.status = StatusValue(buffer, l.name)])
                ELSE on
          [] l.k = "if_bad_args_void" -> IF EvalChecks(e, l.text) THEN Leave(on) ELSE on
          [] l.k = "read_u8_check" ->
                IF src.ri >= src.wi
                THEN LET colon == FirstIndex(l.name, LAMBDA t : t = " : ")
                     IN  Leave([on EXCEPT !.status =
                                   IF src.closed
                                   THEN StatusValue(buffer, SubSeq(l.name, 1, colon - 1))
                                   ELSE StatusValue(buffer,
                                                    SubSeq(l.name, colon + 1, Len(l.name)))])
                ELSE on
          [] l.k = "read_u8_load" ->
                [on EXCEPT !.temps = (l.a :> src.ptr[src.ri + 1]) @@ @, !.io.src.ri = @ + 1]
          [] l.k = "write_u8_check" ->
                IF dst.wi >= dst.len
                THEN Leave([on EXCEPT !.status = StatusValue(buffer, l.name)])
                ELSE on
          [] l.k = "write_u8_store" ->
                [on EXCEPT !.io.dst.ptr[dst.wi + 1] = EvalOperand(e, l.text),
                           !.io.dst.wi = @ + 1]
          [] l.k = "write_check_closed" ->
                IF dst.closed
                THEN Leave([on EXCEPT !.status = StatusValue(buffer, l.name)])
                ELSE on
          [] l.k = "write_check_space" ->
                IF dst.len - dst.wi < SizeofStack(e) - e.vars["s"]
                THEN Leave([on EXCEPT !.status = StatusValue(buffer, l.name)])
                ELSE on
          [] l.k = "write_memmove" ->
                [on EXCEPT !.io.dst.ptr =
                    [i \in DOMAIN @ |->
                        IF dst.wi < i /\ i <= dst.wi + (SizeofStack(e) - e.vars["s"])
                        THEN e.mem[e.self \o <<fPrefix, "stack">>][e.vars["s"] + (i - dst.wi)]
                        ELSE @[i]]]
          [] l.k = "write_advance" ->
                [on EXCEPT !.io.dst.wi = @ + (SizeofStack(e) - e.vars["s"])]
          [] l.k = "assign" ->
                Store(on, SubSeq(l.text, 1, eq - 1),
                      EvalOperand(e, SubSeq(l.text, eq + 1, Len(l.text))))
          [] l.k = "var_init" ->
                Store(on, SubSeq(l.text, 1, eq - 1),
                      EvalOperand(e, SubSeq(l.text, eq + 1, Len(l.text))))
          [] l.k = "status_goto" ->
                Leave([on EXCEPT !.status = StatusValue(buffer, l.name)])
          [] l.k \in {"return_name", "return_void", "return_status"} -> Leave(on)
          [] l.k = "cleanup0_label" -> [on EXCEPT !.mem[e.self \o <<"status">>] = e.status]
          [] l.k = "func_close" -> Ret(on, <<>>)
          [] OTHER -> on

\* The function whose lines are ls, from e on, to its return.
RECURSIVE ExecFunc(_, _)
ExecFunc(e, ls) ==
    IF e.done THEN e ELSE With(StepLine(e, ls), LAMBDA e1 : ExecFunc(e1, ls))

---------------------------------------------------------------------------
(* The inputs of the function emitter: a package of one status            *)
(* declaration, the struct bar and one function.                          *)

MaxBody == 2

InSrc == Dot(Ident("in"), "src")

InDst == Dot(Ident("in"), "dst")

\* in.src.read_u8?()
ReadU8 == CallSuspendible(Dot(InSrc, "read_u8"), <<>>)

\* in.dst.write_u8?(x: v)
WriteU8(v) == CallSuspendible(Dot(InDst, "write_u8"), <<Arg("x", v)>>)

\* in.dst.write?(x: this.stack[s:])
WriteStack ==
    CallSuspendible(Dot(InDst, "write"),
                    <<Arg("x", Slice(Dot(Ident("this"), "stack"), <<Ident("s")>>, <<>>))>>)

\* this.decode_header?(src: in.src)
DecodeHeader == CallSuspendible(Dot(Ident("this"), "decode_header"), <<Arg("src", InSrc)>>)

LocalX == Ident("x")

ThisStackAt(i) == Index(Dot(Ident("this"), "stack"), i)

MsgBadMagic == <<Quote,"b","a","d"," ","m","a","g","i","c",Quote>>

\* The message of the built-in status "short read".
MsgShortRead == <<Quote,"s","h","o","r","t"," ","r","e","a","d",Quote>>

\* The statements a function body is made of; the last one is x.reset(), an
\* expression statement that is not a suspendible call.
StmtPool ==
    { Assign(LocalX, "KeyEq", ReadU8),
      Assign(LocalX, "KeyEq", BinaryOp("KeyXBinaryMinus", ReadU8, ReadU8)),
      Assign(ThisStackAt(ReadU8), "KeyEq", ReadU8),
      Assign(LocalX, "KeyEq", Call(Dot(LocalX, "low_bits"), <<Arg("n", ReadU8)>>)),
      Var("y", TypeName("u8"), <<ReadU8>>),
      ReadU8,
      WriteU8(LocalX),
      WriteU8(ReadU8),
      WriteStack,
      DecodeHeader,
      Return("", <<>>),
      Return(KeyError, MsgBadMagic),
      Return(KeyStatus, MsgShortRead),
      Call(Dot(LocalX, "reset"), <<>>) }

Bodies == SeqsUpTo(StmtPool, MaxBody)

\* func [bar.]run?(src buf1, dst buf1), with each choice of "pub", "?" and
\* receiver.
FuncPool ==
    { Func(r, "run", p, s,
           << Field("src", TypeName("buf1"), <<>>), Field("dst", TypeName("buf1"), <<>>) >>,
           b) :
        r \in {"", "bar"}, p \in BOOLEAN, s \in BOOLEAN, b \in Bodies }

StructBar == Struct("bar", TRUE, TRUE, << Field("stack", TypeArray(4, TypeName("u8")), <<>>) >>)

StatusBadMagic == [kind |-> "KStatus", keyword |-> KeyError, message |-> MsgBadMagic]

InitFunc ==
    /\ pkgName = <<"f","o","o">>
    /\ \E f \in FuncPool : files = <<StatusBadMagic, StructBar, f>>
    /\ declIdx = 0
    /\ statusList = <<>>
    /\ statusMap = <<>>
    /\ buffer = <<>>
    /\ phase = "gather"
    /\ err = ""
    /\ perFunc = NoPerFunc
    /\ mem = <<>>
    /\ io = NoIO
    /\ call = NoCall
    /\ hist = NoHist

NextFunc ==
    \/ GatherStatuses
    \/ GatherDone
    \/ genHeader
    \/ genImpl
    \/ writeFuncImplStep

SpecFunc == InitFunc /\ [][NextFunc]_vars

---------------------------------------------------------------------------
(* The emitted code at work: a package of the struct dec, the struct bar   *)
(* that embeds it, and two public methods of bar; a bar in memory whose    *)
(* cells hold whatever was there before; the calls a user makes.           *)

MaxCalls == 3

ThisCount == Dot(Ident("this"), "count")

ThisSeen == Dot(Ident("this"), "seen")

\* pri struct dec?(bits u8 = 3)
RunStructDec == Struct("dec", FALSE, TRUE, << Field("bits", TypeName("u8"), <<3>>) >>)

\* pub struct bar?(count u8 [= 7], seen u8, sub dec)
RunStructBar(dv) ==
    Struct("bar", TRUE, TRUE,
           << Field("count", TypeName("u8"), dv), Field("seen", TypeName("u8"), <<>>),
              Field("sub", TypeName("dec"), <<>>) >>)

\* pub func bar.run?(src buf1, dst buf1, n u8[..5])
RunFunc(body) ==
    Func("bar", "run", TRUE, TRUE,
         << Field("src", TypeName("buf1"), <<>>), Field("dst", TypeName("buf1"), <<>>),
            Field("n", TypeRefined("u8", <<>>, <<5>>), <<>>) >>,
         body)

\* pub func bar.mark()
MarkFunc == Func("bar", "mark", TRUE, FALSE, <<>>, << Assign(ThisSeen, "KeyEq", Const(1)) >>)

RunBodies ==
    { << Assign(ThisCount, "KeyEq", ReadU8) >>,
      << WriteU8(ThisCount), Assign(ThisSeen, "KeyEq", Const(1)) >>,
      << Assign(ThisSeen, "KeyEq", Const(1)), Return(KeyError, MsgBadMagic) >>,
      << Assign(ThisCount, "KeyEq", ReadU8), WriteU8(ThisCount) >> }

\* What the memory of the struct may hold before any call.
Garbage == {0, 2, 85, PUFFS_MAGIC}

\* The buffers: two bytes to read and room for two, nothing to read from a
\* closed source, no room to write.
Buffers ==
    { [src |-> [ptr |-> <<5, 9>>, ri |-> 0, wi |-> b[1], closed |-> b[2]],
       dst |-> [ptr |-> <<0, 0>>, len |-> b[3], wi |-> 0, closed |-> FALSE]] :
        b \in { <<2, FALSE, 2>>, <<0, TRUE, 2>>, <<2, FALSE, 0>> } }

\* The values of the argument n.
ArgValues == {5, 6}

InitRun ==
    /\ pkgName = <<"f","o","o">>
    /\ \E dv \in {<<>>, <<7>>}, b \in RunBodies :
          files = <<StatusBadMagic, RunStructDec, RunStructBar(dv), RunFunc(b), MarkFunc>>
    /\ declIdx = 0
    /\ statusList = <<>>
    /\ statusMap = <<>>
    /\ buffer = <<>>
    /\ phase = "gather"
    /\ err = ""
    /\ perFunc = NoPerFunc
    /\ \E g \in Garbage : mem = [p \in CellsOf("bar") |-> g]
    /\ io \in Buffers
    /\ call = NoCall
    /\ hist = NoHist

Built == phase = "done" /\ err = ""

\* puffs_PKG_bar_constructor(self, puffs_version, for_internal_use_only)
ConstructorCall ==
    /\ Built /\ hist.n < MaxCalls
    /\ \E self \in {<<>>, NULL}, v \in {PUFFS_VERSION, PUFFS_VERSION + 1},
          z \in {0, PUFFS_ALREADY_ZEROED} :
       \E s \in { ExecCtor([mem |-> mem, trace |-> <<>>],
                           BodyLines(buffer, "ctor_open", CtorName("bar")), 1, self, v, z) } :
          /\ mem' = s.mem
          /\ call' = [fn |-> "constructor", self |-> self, arg |-> <<v, z>>, ret |-> <<>>,
                      trace |-> s.trace, mem0 |-> mem, io0 |-> io]
          /\ hist' = [n |-> hist.n + 1,
                      mismatch |-> IF self = NULL THEN hist.mismatch ELSE v # PUFFS_VERSION]
    /\ UNCHANGED <<genVars, io>>

\* puffs_PKG_bar_destructor(self)
DestructorCall ==
    /\ Built /\ hist.n < MaxCalls
    /\ \E self \in {<<>>, NULL} :
       \E s \in { ExecCtor([mem |-> mem, trace |-> <<>>],
                           BodyLines(buffer, "dtor_open", DtorName("bar")), 1, self, 0, 0) } :
          /\ mem' = s.mem
          /\ call' = [fn |-> "destructor", self |-> self, arg |-> <<>>, ret |-> <<>>,
                      trace |-> s.trace, mem0 |-> mem, io0 |-> io]
    /\ hist' = [hist EXCEPT !.n = @ + 1]
    /\ UNCHANGED <<genVars, io>>

\* A call of a public function of bar.
MethodCall ==
    /\ Built /\ hist.n < MaxCalls
    /\ \E i \in DOMAIN funcsOf("pubOnly"), self \in {<<>>, NULL}, n \in ArgValues :
       LET f == funcsOf("pubOnly")[i]
       IN  \E e \in { ExecFunc([mem |-> mem, io |-> io, status |-> 0, temps |-> <<>>,
                                vars |-> <<>>, args |-> [n |-> n], self |-> self,
                                pc |-> 1, done |-> FALSE, ret |-> <<>>, trace |-> <<>>],
                               BodyLines(buffer, "func_open", FuncName(f))) } :
              /\ mem' = e.mem
              /\ io' = e.io
              /\ call' = [fn |-> f.name, self |-> self, arg |-> <<n>>, ret |-> e.ret,
                          trace |-> e.trace, mem0 |-> mem, io0 |-> io]
    /\ hist' = [hist EXCEPT !.n = @ + 1]
    /\ UNCHANGED genVars

NextRun ==
    \/ GatherStatuses
    \/ GatherDone
    \/ genHeader
    \/ genImpl
    \/ writeFuncImplStep
    \/ ConstructorCall
    \/ DestructorCall
    \/ MethodCall

SpecRun == InitRun /\ [][NextRun]_vars

---------------------------------------------------------------------------
(* The statement loop of gen.writeFuncImpl on a long body: a run of one    *)
(* statement repeated.  declIdx counts the statements of the run lowered   *)
(* so far, files holds the function with one statement of the run, and     *)
(* buffer holds the lines written by the last call of writeStatement.      *)

MaxRun == 10003

\* x = in.src.read_u8?()    x = in.src.read_u8?() - in.src.read_u8?()
\* in.dst.write_u8?(x: x)
RunStatements ==
    { Assign(LocalX, "KeyEq", ReadU8),
      Assign(LocalX, "KeyEq", BinaryOp("KeyXBinaryMinus", ReadU8, ReadU8)),
      WriteU8(LocalX) }

\* The state on entry to the loop: perFunc as the top of writeFuncImpl sets it.
InitTemp ==
    /\ pkgName = <<"f","o","o">>
    /\ \E o \in RunStatements, p \in BOOLEAN, s \in BOOLEAN :
          /\ files = << StructBar,
                        Func("bar", "run", p, s,
                             << Field("src", TypeName("buf1"), <<>>),
                                Field("dst", TypeName("buf1"), <<>>) >>,
                             <<o>>) >>
          /\ perFunc = [NoPerFunc EXCEPT !.funk = files[2], !.public = p, !.suspendible = s]
    /\ declIdx = 0
    /\ statusList = <<>>
    /\ statusMap = <<>>
    /\ buffer = <<>>
    /\ phase = "body"
    /\ err = ""
    /\ mem = <<>>
    /\ io = NoIO
    /\ call = NoCall
    /\ hist = NoHist

\* One iteration of "for _, o := range n.Body() { g.writeStatement(o, 0) }".
writeStatementStep ==
    /\ phase = "body"
    /\ declIdx < MaxRun
    /\ \E s \in { writeStatement(NewState(<<>>), files[2].body[1], 0) } :
          /\ buffer' = s.buf
          /\ perFunc' = s.perFunc
          /\ err' = s.err
          /\ phase' = IF s.err # "" THEN "failed" ELSE "body"
    /\ declIdx' = declIdx + 1
    /\ UNCHANGED <<pkgName, files, statusList, statusMap, runVars>>

\* The loop is over: the closing lines of writeFuncImpl and its test of the
\* two counters of temporaries.
writeFuncImplFinish ==
    /\ phase = "body"
    /\ \E s \in { writeFuncImplEpilogue(NewState(<<>>)) } :
          /\ buffer' = s.buf
          /\ err' = IF perFunc.tempW # perFunc.tempR
                    THEN "internal error: temporary variable count out of sync"
                    ELSE ""
          /\ phase' = IF perFunc.tempW # perFunc.tempR THEN "failed" ELSE "done"
    /\ UNCHANGED <<pkgName, files, declIdx, statusList, statusMap, perFunc, runVars>>

NextTemp == writeStatementStep \/ writeFuncImplFinish

SpecTemp == InitTemp /\ [][NextTemp]_vars

---------------------------------------------------------------------------
(* The argument checks at work: a package of the struct bar and one public *)
(* function with a pointer argument p and a numeric argument n.            *)

\* The types of the argument n: u8[..5], u8[0..255], u8[3..5], i8[-3..127],
\* usize[..0], usize[1..5] and u8.
ArgTypes ==
    { TypeRefined("u8", <<>>, <<5>>),
      TypeRefined("u8", <<0>>, <<255>>),
      TypeRefined("u8", <<3>>, <<5>>),
      TypeRefined("i8", <<-3>>, <<127>>),
      TypeRefined("usize", <<>>, <<0>>),
      TypeRefined("usize", <<1>>, <<5>>),
      TypeName("u8") }

\* Values a caller can pass for an argument of the numeric type.
ValuesOf(name) ==
    IF name = "i8" THEN {-128, -4, -3, 0, 5, 6, 127} ELSE {0, 1, 3, 5, 6, 255}

\* pub struct bar?(seen u8)
ArgStructBar == Struct("bar", TRUE, TRUE, << Field("seen", TypeName("u8"), <<>>) >>)

\* pub func [bar.]run[?](p ptr u8, n T) { var y u8 = 1 }
ArgFunc(receiver, suspendible, ty) ==
    Func(receiver, "run", TRUE, suspendible,
         << Field("p", TypePtr(TypeName("u8")), <<>>), Field("n", ty, <<>>) >>,
         << Var("y", TypeName("u8"), <<Const(1)>>) >>)

InitArgs ==
    /\ pkgName = <<"f","o","o">>
    /\ \E rs \in { <<"bar", TRUE>>, <<"bar", FALSE>>, <<"", FALSE>> }, ty \in ArgTypes :
          files = << ArgStructBar, ArgFunc(rs[1], rs[2], ty) >>
    /\ declIdx = 0
    /\ statusList = <<>>
    /\ statusMap = <<>>
    /\ buffer = <<>>
    /\ phase = "gather"
    /\ err = ""
    /\ perFunc = NoPerFunc
    /\ \E g \in {0, 85} : mem = [c \in CellsOf("bar") |-> g]
    /\ io = NoIO
    /\ call = NoCall
    /\ hist = NoHist

\* The public function of the package.
CheckedFunc == funcsOf("pubOnly")[1]

\* A call of the public function with a value for each argument; a null
\* pointer is 0.
CheckedCall ==
    /\ Built /\ hist.n < MaxCalls
    /\ \E p \in {0, 1}, n \in ValuesOf(CheckedFunc.in[2].xtype.name) :
       \E e \in { ExecFunc([mem |-> mem, io |-> io, status |-> 0, temps |-> <<>>,
                            vars |-> <<>>, args |-> [p |-> p, n |-> n], self |-> <<>>,
                            pc |-> 1, done |-> FALSE, ret |-> <<>>, trace |-> <<>>],
                           BodyLines(buffer, "func_open", FuncName(CheckedFunc))) } :
          /\ mem' = e.mem
          /\ io' = e.io
          /\ call' = [fn |-> CheckedFunc.name, self |-> <<>>, arg |-> <<p, n>>, ret |-> e.ret,
                      trace |-> e.trace, mem0 |-> mem, io0 |-> io]
    /\ hist' = [hist EXCEPT !.n = @ + 1]
    /\ UNCHANGED genVars

NextArgs ==
    \/ GatherStatuses
    \/ GatherDone
    \/ genHeader
    \/ genImpl
    \/ writeFuncImplStep
    \/ ConstructorCall
    \/ CheckedCall

SpecArgs == InitArgs /\ [][NextArgs]_vars

---------------------------------------------------------------------------
(* The whole backend on a package: a status declaration, the structs bar   *)
(* and dec and the functions bar.run and bar.step; main's callback around  *)
(* generate(), and a second invocation on the same input.                  *)

MaxRuns == 2

\* No status declaration, error "bad magic", or a message token that is no
\* quoted literal.
PkgStatuses ==
    { <<>>, <<StatusBadMagic>>,
      << [kind |-> "KStatus", keyword |-> KeyStatus, message |-> <<"b","a","d">>] >> }

\* struct bar(stack [4] u8), with each choice of "pub" and "?".
PkgStructBar(p, s) ==
    Struct("bar", p, s, << Field("stack", TypeArray(4, TypeName("u8")), <<>>) >>)

\* The fields of dec: bits u8 = 3, or q ptr [4] u8, which has no C type.
PkgDecFields ==
    { << Field("bits", TypeName("u8"), <<3>>) >>,
      << Field("q", TypePtr(TypeArray(4, TypeName("u8"))), <<>>) >> }

\* x = in.src.read_u8?()
\* while x { break }  x = in.src.read_u8?()
\* in.src.read_u8?()
PkgBodies ==
    { << Assign(LocalX, "KeyEq", ReadU8) >>,
      << While(1, LocalX, << Jump("KeyBreak", 1) >>, FALSE, TRUE),
         Assign(LocalX, "KeyEq", ReadU8) >>,
      << ReadU8 >> }

PkgFunc(name, p, body) ==
    Func("bar", name, p, TRUE,
         << Field("src", TypeName("buf1"), <<>>), Field("dst", TypeName("buf1"), <<>>) >>,
         body)

NoRuns == [n |-> 0, out |-> <<>>, err |-> ""]

InitPkg ==
    /\ pkgName = <<"f","o","o">>
    /\ \E st \in PkgStatuses, bp \in BOOLEAN, bs \in BOOLEAN, dp \in BOOLEAN, ds \in BOOLEAN,
          df \in PkgDecFields, b1 \in PkgBodies, p2 \in BOOLEAN, b2 \in PkgBodies :
          files = st \o << PkgStructBar(bp, bs), Struct("dec", dp, ds, df),
                           PkgFunc("run", TRUE, b1), PkgFunc("step", p2, b2) >>
    /\ declIdx = 0
    /\ statusList = <<>>
    /\ statusMap = <<>>
    /\ buffer = <<>>
    /\ phase = "gather"
    /\ err = ""
    /\ perFunc = NoPerFunc
    /\ mem = <<>>
    /\ io = NoIO
    /\ call = NoCall
    /\ hist = NoRuns

\* The callback handing over whatever the buffer holds, error or not.
mainReturnPartial ==
    /\ phase \in {"done", "failed"}
    /\ call' = [fn |-> "main", out |-> <<"clang-format">> \o buffer, err |-> err]
    /\ phase' = "returned"
    /\ UNCHANGED <<pkgName, files, declIdx, statusList, statusMap, buffer, err, perFunc,
                   mem, io, hist>>

\* The callback of main after g.generate(): the error, or the buffer piped
\* through clang-format, which exits with or without an error.
mainReturn ==
    /\ phase \in {"done", "failed"}
    /\ \E formatted \in BOOLEAN :
          call' = IF err # "" THEN [fn |-> "main", out |-> <<>>, err |-> err]
                  ELSE IF ~formatted
                       THEN [fn |-> "main", out |-> <<>>, err |-> "exit status 1"]
                       ELSE [fn |-> "main", out |-> <<"clang-format">> \o buffer, err |-> ""]
    /\ phase' = "returned"
    /\ UNCHANGED <<pkgName, files, declIdx, statusList, statusMap, buffer, err, perFunc,
                   mem, io, hist>>

\* The callback is called once more with the same package name and files: a
\* new gen, whose other fields hold their zero values.
mainAgain ==
    /\ phase = "returned"
    /\ hist.n + 1 < MaxRuns
    /\ hist' = [n |-> hist.n + 1, out |-> buffer, err |-> err]
    /\ declIdx' = 0
    /\ statusList' = <<>>
    /\ statusMap' = <<>>
    /\ buffer' = <<>>
    /\ phase' = "gather"
    /\ err' = ""
    /\ perFunc' = NoPerFunc
    /\ call' = NoCall
    /\ UNCHANGED <<pkgName, files, mem, io>>

NextPkg ==
    \/ GatherStatuses
    \/ GatherDone
    \/ genHeader
    \/ genImpl
    \/ writeFuncImplStep
    \/ mainReturn
    \/ mainAgain

SpecPkg == InitPkg /\ [][NextPkg]_vars

---------------------------------------------------------------------------
(* The backend on packages that use what it does not lower yet.            *)

LocalY == Ident("y")

\* x = x.reset()
StmtMethodCall == Assign(LocalX, "KeyEq", Call(Dot(LocalX, "reset"), <<>>))

\* var a [4] u8 = 1
StmtArrayInit == Var("a", TypeArray(4, TypeName("u8")), <<Const(1)>>)

\* x = -y
StmtUnary == Assign(LocalX, "KeyEq", UnaryOp("KeyXUnaryMinus", LocalY))

\* x = not y
StmtUnaryNot == Assign(LocalX, "KeyEq", UnaryOp("KeyXUnaryNot", LocalY))

\* x = this.stack[y:]
StmtSlice == Assign(LocalX, "KeyEq", Slice(Dot(Ident("this"), "stack"), <<LocalY>>, <<>>))

\* The statements the backend lowers: x = 1, x = x.low_bits(n: y), x = x + y.
TodoSupported ==
    { Assign(LocalX, "KeyEq", Const(1)),
      Assign(LocalX, "KeyEq", Call(Dot(LocalX, "low_bits"), <<Arg("n", LocalY)>>)),
      Assign(LocalX, "KeyEq", BinaryOp("KeyXBinaryPlus", LocalX, LocalY)) }

TodoStatements ==
    TodoSupported \cup {StmtMethodCall, StmtArrayInit, StmtUnary, StmtUnaryNot, StmtSlice}

\* struct bar?(stack [4] u8, sub dec)  and  struct bar?(stack [4] u8, subs [2] dec)
TodoBarFields ==
    { << Field("stack", TypeArray(4, TypeName("u8")), <<>>),
         Field("sub", TypeName("dec"), <<>>) >>,
      << Field("stack", TypeArray(4, TypeName("u8")), <<>>),
         Field("subs", TypeArray(2, TypeName("dec")), <<>>) >> }

InitTodo ==
    /\ pkgName = <<"f","o","o">>
    /\ \E bf \in TodoBarFields, p \in BOOLEAN, s \in BOOLEAN, o \in TodoStatements :
          files = << RunStructDec, Struct("bar", TRUE, TRUE, bf),
                     Func("bar", "run", p, s,
                          << Field("src", TypeName("buf1"), <<>>),
                             Field("dst", TypeName("buf1"), <<>>) >>,
                          <<o>>) >>
    /\ declIdx = 0
    /\ statusList = <<>>
    /\ statusMap = <<>>
    /\ buffer = <<>>
    /\ phase = "gather"
    /\ err = ""
    /\ perFunc = NoPerFunc
    /\ mem = <<>>
    /\ io = NoIO
    /\ call = NoCall
    /\ hist = NoHist

NextTodo ==
    \/ GatherStatuses
    \/ GatherDone
    \/ genHeader
    \/ genImpl
    \/ writeFuncImplStep

SpecTodo == InitTodo /\ [][NextTodo]_vars

---------------------------------------------------------------------------
(* Packages of two functions whose bodies are loops with labelled jumps.   *)
(* A loop's HasContinue and HasBreak flags are the ones the front end      *)
(* sets: a flag is set iff a jump of that keyword names the loop.          *)

RECURSIVE JumpsTo(_, _, _)
\* Does the block hold, at any depth, a jump of the keyword to the loop?
JumpsTo(block, keyword, id) ==
    \E i \in DOMAIN block :
        \/ block[i].kind = "KJump" /\ block[i].keyword = keyword /\ block[i].jumpTarget = id
        \/ block[i].kind = "KWhile" /\ JumpsTo(block[i].body, keyword, id)

Loop(id, body) ==
    While(id, BoolConst(1), body, JumpsTo(body, "KeyContinue", id), JumpsTo(body, "KeyBreak", id))

JumpKeywords == {"KeyBreak", "KeyContinue"}

\* The bodies of an inner loop: up to one jump to itself or to the outer
\* loop, or two jumps.
InnerBodies(id, outer) ==
    { <<>> }
    \cup { <<Jump(k, t)>> : k \in JumpKeywords, t \in {id, outer} }
    \cup { <<Jump("KeyContinue", id), Jump("KeyBreak", outer)>>,
           <<Jump("KeyBreak", outer), Jump("KeyBreak", id)>> }

\* An outer loop: its own jumps, then perhaps an inner loop.
OuterLoops(id, inner) ==
    { Loop(id, js \o ws) :
        js \in { <<>>, <<Jump("KeyBreak", id)>>, <<Jump("KeyContinue", id)>>,
                 <<Jump("KeyContinue", id), Jump("KeyBreak", id)>> },
        ws \in { <<>> } \cup { <<Loop(inner, b)>> : b \in InnerBodies(inner, id) } }

\* One or two outer loops; the loops of a body are the nodes 1 to 4.
LoopBodies ==
    { <<w>> : w \in OuterLoops(1, 2) }
    \cup { <<w, v>> : w \in OuterLoops(1, 2), v \in OuterLoops(3, 4) }

LoopFunc(name, body) ==
    Func("bar", name, TRUE, TRUE,
         << Field("src", TypeName("buf1"), <<>>), Field("dst", TypeName("buf1"), <<>>) >>,
         body)

\* The package: two functions of loops.
InitLoopPkg ==
    /\ \E b \in LoopBodies, c \in { <<Loop(1, <<Jump("KeyBreak", 1)>>)>>,
                                    <<Loop(1, <<>>), Loop(2, <<Jump("KeyContinue", 2)>>)>> } :
          files = <<StructBar, LoopFunc("run", b), LoopFunc("step", c)>>
    /\ declIdx = 0
    /\ phase = "gather"
    /\ perFunc = NoPerFunc

MaxLoops == 3

RECURSIVE Renumber(_, _)
\* The block with d added to the node of every loop.
Renumber(block, d) ==
    [i \in DOMAIN block |->
        CASE block[i].kind = "KWhile" ->
                [block[i] EXCEPT !.id = @ + d, !.body = Renumber(@, d)]
          [] block[i].kind = "KJump" -> [block[i] EXCEPT !.jumpTarget = @ + d]
          [] OTHER -> block[i]]

\* The loops a run is made of: with no jump, with a continue, with a break
\* and a continue, and with an inner loop that breaks out of both.
RunLoops ==
    { Loop(1, <<>>),
      Loop(1, <<Jump("KeyContinue", 1)>>),
      Loop(1, <<Jump("KeyContinue", 1), Jump("KeyBreak", 1)>>),
      Loop(1, <<Loop(2, <<Jump("KeyBreak", 1), Jump("KeyBreak", 2)>>)>>) }

\* The numbers of loops lowered before the model's first step.
LoopsBefore == {0, maxJumpTargets - 2}

\* The statement loop of gen.writeFuncImpl on a body that is a run of one
\* loop repeated: files holds the function with the first loop of the run
\* (nodes 1 and 2; the k-th loop has the nodes 2k-1 and 2k), declIdx counts
\* the loops lowered so far, and the loops lowered before the model's first
\* step were labelled ones.
InitLoopRun ==
    /\ \E w \in RunLoops, n \in LoopsBefore :
          /\ files = <<StructBar, LoopFunc("run", <<w>>)>>
          /\ declIdx = n
          /\ perFunc = [NoPerFunc EXCEPT !.funk = files[2], !.public = TRUE,
                                         !.suspendible = TRUE,
                                         !.jumpTargets =
                                             IF n = 0 THEN <<>>
                                             ELSE Append([i \in 1..(n - 1) |-> 2 * i - 1],
                                                         2 * n - 1)]
    /\ phase = "body"

InitLoop ==
    /\ pkgName = <<"f","o","o">>
    /\ (InitLoopPkg \/ InitLoopRun)
    /\ statusList = <<>>
    /\ statusMap = <<>>
    /\ buffer = <<>>
    /\ err = ""
    /\ mem = <<>>
    /\ io = NoIO
    /\ call = NoCall
    /\ hist = NoHist

\* One iteration of "for _, o := range n.Body() { g.writeStatement(o, 0) }"
\* on the run of loops.
writeLoopStep ==
    /\ phase = "body"
    /\ \E n \in LoopsBefore : n <= declIdx /\ declIdx < n + MaxLoops
    /\ \E s \in { writeStatement(NewState(<<>>),
                                 Renumber(files[2].body, 2 * declIdx)[1], 0) } :
          /\ buffer' = s.buf
          /\ perFunc' = s.perFunc
          /\ err' = s.err
          /\ phase' = IF s.err # "" THEN "failed" ELSE "body"
    /\ declIdx' = declIdx + 1
    /\ UNCHANGED <<pkgName, files, statusList, statusMap, runVars>>

NextLoop ==
    \/ GatherStatuses
    \/ GatherDone
    \/ genHeader
    \/ genImpl
    \/ writeFuncImplStep
    \/ writeLoopStep
    \/ writeFuncImplFinish

SpecLoop == InitLoop /\ [][NextLoop]_vars

---------------------------------------------------------------------------
(* The loop of gen.writeStatement over a long if / else-if chain, one turn *)
(* at a time.  The chain is a run of two links in turn (files holds the    *)
(* function with the two); declIdx counts the links lowered so far, call   *)
(* holds the locals of the loop, buffer the lines written by the last      *)
(* turn, and hist counts the braces opened and closed by the lines written *)
(* so far.                                                                 *)

MaxLinks == 1002

\* x == 0    in.src.read_u8?() == 0
IfConditions ==
    { BinaryOp("KeyXBinaryEqEq", LocalX, Const(0)),
      BinaryOp("KeyXBinaryEqEq", ReadU8, Const(0)) }

StmtSetX == Assign(LocalX, "KeyEq", Const(1))

\* The locals of the if case on entry: n, nCloseCurly := n.If(), 1; first := true.
IfFrame == [fn |-> "writeStatement", nCloseCurly |-> 1, first |-> TRUE]

NoBraces == [open |-> 0, close |-> 0]

\* The braces the lines L open, and those they close.
BracesOpened(L) ==
    Cardinality({ i \in DOMAIN L : L[i].k \in {"if_open", "while_open", "open_curly", "else_open"} })

BracesClosed(L) ==
    Cardinality({ i \in DOMAIN L : L[i].k \in {"close_curly", "else", "else_open"} })

InitIf ==
    /\ pkgName = <<"f","o","o">>
    /\ \E c \in IfConditions, d \in IfConditions :
          files = << StructBar,
                     Func("bar", "run", TRUE, TRUE,
                          << Field("src", TypeName("buf1"), <<>>),
                             Field("dst", TypeName("buf1"), <<>>) >>,
                          << If(c, <<StmtSetX>>, <<>>, <<>>), If(d, <<>>, <<>>, <<>>) >>) >>
    /\ perFunc = [NoPerFunc EXCEPT !.funk = files[2], !.public = TRUE, !.suspendible = TRUE]
    /\ declIdx = 0
    /\ statusList = <<>>
    /\ statusMap = <<>>
    /\ buffer = <<>>
    /\ phase = "body"
    /\ err = ""
    /\ mem = <<>>
    /\ io = NoIO
    /\ call = IfFrame
    /\ hist = NoBraces

\* One turn of "for first := true; ; first = false" on the next link of the
\* chain, which has an else-if after it, or an else body, or neither; when
\* the loop is left, the closing braces after it.
writeIfStep ==
    /\ phase = "body"
    /\ declIdx < MaxLinks
    /\ \E after \in {"else if", "else", ""} :
       \E r \in { writeIfTurn(NewState(<<>>),
                              [files[2].body[1 + (declIdx % 2)] EXCEPT
                                  !.bodyIfFalse = IF after = "else" THEN <<StmtSetX>> ELSE <<>>,
                                  !.elseIf = IF after = "else if" THEN <<@>> ELSE <<>>],
                              call.first, call.nCloseCurly, 1) } :
       \E s \in { IF r.s.err = "" /\ r.left THEN CloseCurlies(r.s, r.nCloseCurly) ELSE r.s } :
          /\ buffer' = s.buf
          /\ perFunc' = s.perFunc
          /\ err' = s.err
          /\ phase' = IF s.err # "" THEN "failed" ELSE IF r.left THEN "done" ELSE "body"
          /\ call' = [call EXCEPT !.nCloseCurly = r.nCloseCurly, !.first = FALSE]
          /\ hist' = [open |-> hist.open + BracesOpened(s.buf),
                      close |-> hist.close + BracesClosed(s.buf)]
    /\ declIdx' = declIdx + 1
    /\ UNCHANGED <<pkgName, files, statusList, statusMap, mem, io>>

NextIf == writeIfStep

SpecIf == InitIf /\ [][NextIf]_vars

---------------------------------------------------------------------------
(* Packages of one function whose body holds var statements in nested      *)
(* blocks; and the descent of gen.writeVars and gen.writeStatement into a   *)
(* nest of loops, one call at a time.                                      *)

MaxNest == 257

CondX == BinaryOp("KeyXBinaryEqEq", LocalX, Const(0))

VarU8(name) == Var(name, TypeName("u8"), <<>>)

\* The statements of the bodies: var statements at the top, in the bodies
\* of an if, in those of the links of an else-if chain, in a loop, and in
\* an if inside a loop.
VarStatements ==
    { VarU8("a"),
      Var("b", TypeName("u8"), <<Const(7)>>),
      Var("c", TypeArray(4, TypeName("u8")), <<>>),
      StmtSetX,
      If(CondX, <<VarU8("d")>>, <<VarU8("e")>>, <<>>),
      If(CondX, <<StmtSetX, VarU8("d")>>, <<>>,
         <<If(CondX, <<VarU8("e")>>, <<>>,
              <<If(CondX, <<>>, <<VarU8("f"), StmtSetX>>, <<>>)>>)>>),
      While(1, CondX, <<VarU8("g"), StmtSetX>>, FALSE, FALSE),
      While(1, CondX, <<If(CondX, <<While(2, CondX, <<VarU8("h")>>, FALSE, FALSE)>>,
                           <<VarU8("i")>>, <<>>)>>, FALSE, FALSE) }

VarFunc(p, s, body) ==
    Func("bar", "run", p, s,
         << Field("src", TypeName("buf1"), <<>>), Field("p", TypePtr(TypeName("u8")), <<>>) >>,
         body)

\* The package: one function of at most two of the statements.
InitVarsPkg ==
    /\ \E p \in BOOLEAN, s \in BOOLEAN, b \in SeqsUpTo(VarStatements, 2) :
          files = <<StructBar, VarFunc(p, s, b)>>
    /\ phase = "gather"
    /\ perFunc = NoPerFunc
    /\ call = NoCall

\* The blocks inside the innermost loop of a nest.
NestBlocks ==
    { <<>>, <<VarU8("a")>>, <<StmtSetX>>, <<If(CondX, <<VarU8("d")>>, <<>>, <<>>)>> }

\* The nest: loops one in the other around a block.  files holds the
\* function with the innermost block as its body, call the function called
\* on the current block and its depth argument, and declIdx the loops
\* entered so far (the height of the nest, once its innermost block is
\* reached).  The state is that of writeFuncImpl before "g.writeVars(n.Body(), 0)".
InitVarsNest ==
    /\ \E b \in NestBlocks : files = <<StructBar, VarFunc(TRUE, TRUE, b)>>
    /\ phase = "vars"
    /\ perFunc = [NoPerFunc EXCEPT !.funk = files[2], !.public = TRUE, !.suspendible = TRUE]
    /\ call = [fn |-> "writeVars", depth |-> 0]

InitVars ==
    /\ pkgName = <<"f","o","o">>
    /\ (InitVarsPkg \/ InitVarsNest)
    /\ declIdx = 0
    /\ statusList = <<>>
    /\ statusMap = <<>>
    /\ buffer = <<>>
    /\ err = ""
    /\ mem = <<>>
    /\ io = NoIO
    /\ hist = NoHist

\* A call of writeVars on the current block of the nest, which holds the
\* next loop or is the innermost block: the test of the depth, and then
\* the call on the loop's body, or the declarations of the innermost block
\* and the return to writeFuncImpl.
writeVarsEnter ==
    /\ phase = "vars"
    /\ call.depth < MaxNest
    /\ \E innermost \in BOOLEAN :
       \E s \in { writeVars(NewState(<<>>), IF innermost THEN files[2].body ELSE <<>>,
                            call.depth) } :
          /\ buffer' = s.buf
          /\ err' = s.err
          /\ phase' = IF s.err # "" THEN "failed"
                      ELSE IF innermost THEN "statements" ELSE "vars"
          /\ call' = IF s.err # "" THEN call
                     ELSE IF innermost THEN [fn |-> "writeStatement", depth |-> 0]
                     ELSE [call EXCEPT !.depth = @ + 1]
          /\ declIdx' = IF s.err # "" \/ innermost THEN declIdx ELSE declIdx + 1
    /\ UNCHANGED <<pkgName, files, statusList, statusMap, perFunc, mem, io, hist>>

\* A call of writeStatement on the next loop of the nest (its lines but for
\* those of its body), or the lowering of the innermost block.
writeStatementEnter ==
    /\ phase = "statements"
    /\ \E s \in { IF call.depth < declIdx
                  THEN writeStatement(NewState(<<>>),
                                      While(call.depth + 1, CondX, <<>>, FALSE, FALSE),
                                      call.depth)
                  ELSE writeStatements(NewState(<<>>), files[2].body, 1, call.depth) } :
          /\ buffer' = s.buf
          /\ err' = s.err
          /\ perFunc' = s.perFunc
          /\ phase' = IF s.err # "" THEN "failed"
                      ELSE IF call.depth < declIdx THEN "statements" ELSE "done"
          /\ call' = IF s.err # "" \/ call.depth = declIdx THEN call
                     ELSE [call EXCEPT !.depth = @ + 1]
    /\ UNCHANGED <<pkgName, files, declIdx, statusList, statusMap, mem, io, hist>>

NextVars ==
    \/ GatherStatuses
    \/ GatherDone
    \/ genHeader
    \/ genImpl
    \/ writeFuncImplStep
    \/ writeVarsEnter
    \/ writeStatementEnter

SpecVars == InitVars /\ [][NextVars]_vars

---------------------------------------------------------------------------
(* The emitted reads and writes at work: a package of the struct bar and   *)
(* one public method whose body reads bytes, writes bytes and writes the   *)
(* stack from an index on; a constructed bar whose stack holds four bytes; *)
(* the two buffers with their indices anywhere in their ranges.            *)

MaxIOCalls == 2

LocalS == Ident("s")

ThisStack == Dot(Ident("this"), "stack")

\* The units of a body: x = in.src.read_u8?();  in.dst.write_u8?(x: 7);
\* s = c; in.dst.write?(x: this.stack[s:]);  s = 0; in.dst.write?(x: this.stack[s:2])
IOUnits ==
    { << Assign(LocalX, "KeyEq", ReadU8) >>,
      << WriteU8(Const(7)) >> }
    \cup { << Assign(LocalS, "KeyEq", Const(c)), WriteStack >> : c \in {0, 1, 4} }
    \cup { << Assign(LocalS, "KeyEq", Const(0)),
              CallSuspendible(Dot(InDst, "write"),
                              <<Arg("x", Slice(ThisStack, <<LocalS>>, <<Const(2)>>))>>) >> }

IOBodies == IOUnits \cup { u \o v : u \in IOUnits, v \in IOUnits }

\* The source holds the bytes 5 and 9; the destination has room for six.
IOBuffers ==
    { [src |-> [ptr |-> <<5, 9>>, ri |-> r[1], wi |-> r[2], closed |-> sc],
       dst |-> [ptr |-> <<0, 0, 0, 0, 0, 0>>, len |-> 6, wi |-> w, closed |-> dc]] :
        r \in { <<0, 0>>, <<0, 1>>, <<1, 2>>, <<2, 2>> }, sc \in BOOLEAN,
        w \in {0, 3, 5, 6}, dc \in BOOLEAN }

StackBytes == <<11, 12, 13, 14>>

InitIO ==
    /\ pkgName = <<"f","o","o">>
    /\ \E b \in IOBodies :
          files = << StructBar,
                     Func("bar", "run", TRUE, TRUE,
                          << Field("src", TypeName("buf1"), <<>>),
                             Field("dst", TypeName("buf1"), <<>>) >>, b) >>
    /\ declIdx = 0
    /\ statusList = <<>>
    /\ statusMap = <<>>
    /\ buffer = <<>>
    /\ phase = "gather"
    /\ err = ""
    /\ perFunc = NoPerFunc
    /\ mem = (<<"status">> :> 0) @@ (<<"magic">> :> PUFFS_MAGIC)
               @@ (<<fPrefix, "stack">> :> StackBytes)
    /\ io \in IOBuffers
    /\ call = NoCall
    /\ hist = NoHist

\* A call of puffs_foo_bar_run(self, a_src, a_dst).
IOCall ==
    /\ Built /\ hist.n < MaxIOCalls
    /\ \E e \in { ExecFunc([mem |-> mem, io |-> io, status |-> 0, temps |-> <<>>,
                            vars |-> <<>>, args |-> <<>>, self |-> <<>>,
                            pc |-> 1, done |-> FALSE, ret |-> <<>>, trace |-> <<>>],
                           BodyLines(buffer, "func_open", FuncName(funcsOf("pubOnly")[1]))) } :
          /\ mem' = e.mem
          /\ io' = e.io
          /\ call' = [fn |-> "run", self |-> <<>>, arg |-> <<>>, ret |-> e.ret,
                      trace |-> e.trace, mem0 |-> mem, io0 |-> io]
    /\ hist' = [hist EXCEPT !.n = @ + 1]
    /\ UNCHANGED genVars

NextIO ==
    \/ GatherStatuses
    \/ GatherDone
    \/ genHeader
    \/ genImpl
    \/ writeFuncImplStep
    \/ IOCall

SpecIO == InitIO /\ [][NextIO]_vars

---------------------------------------------------------------------------
(* Loops with a condition: a package of one status declaration, the struct *)
(* bar and one function whose body has while statements whose condition    *)
(* is plain or holds a suspendible call.                                   *)

\* x == 0 and in.src.read_u8?() == 0
WhileConditions ==
    { BinaryOp("KeyXBinaryEqEq", LocalX, Const(0)),
      BinaryOp("KeyXBinaryEqEq", ReadU8, Const(0)) }

\* The statements of the body: in.src.read_u8?(), x = in.src.read_u8?(), and
\* while c { } and while c { x = in.src.read_u8?() } for each condition c.
WhileStatements ==
    { ReadU8, Assign(LocalX, "KeyEq", ReadU8) }
    \cup { While(1, c, b, FALSE, FALSE) :
             c \in WhileConditions, b \in { <<>>, << Assign(LocalX, "KeyEq", ReadU8) >> } }

WhileFuncs ==
    { Func(r, "run", p, s,
           << Field("src", TypeName("buf1"), <<>>), Field("dst", TypeName("buf1"), <<>>) >>,
           b) :
        r \in {"", "bar"}, p \in BOOLEAN, s \in BOOLEAN,
        b \in SeqsUpTo(WhileStatements, MaxBody) }

InitWhile ==
    /\ pkgName = <<"f","o","o">>
    /\ \E f \in WhileFuncs : files = <<StatusBadMagic, StructBar, f>>
    /\ declIdx = 0
    /\ statusList = <<>>
    /\ statusMap = <<>>
    /\ buffer = <<>>
    /\ phase = "gather"
    /\ err = ""
    /\ perFunc = NoPerFunc
    /\ mem = <<>>
    /\ io = NoIO
    /\ call = NoCall
    /\ hist = NoHist

SpecWhile == InitWhile /\ [][NextFunc]_vars

---------------------------------------------------------------------------
(* Calls that resume: the package and the buffers of the reads and writes, *)
(* and a caller who, between two calls, gives the source its bytes and     *)
(* empties the destination.                                                *)

\* The caller makes both bytes of the source available and takes what was
\* written.
Refill ==
    /\ Built /\ call.fn = "run"
    /\ io.src.wi < Len(io.src.ptr) \/ io.dst.wi > 0
    /\ io' = [io EXCEPT !.src.wi = Len(io.src.ptr), !.dst.wi = 0]
    /\ UNCHANGED <<genVars, mem, call, hist>>

NextResume ==
    \/ GatherStatuses
    \/ GatherDone
    \/ genHeader
    \/ genImpl
    \/ writeFuncImplStep
    \/ IOCall
    \/ Refill

SpecResume == InitIO /\ [][NextResume]_vars

---------------------------------------------------------------------------
(* Structs in structs: a package of the structs leaf, dec and bar, each    *)
(* suspendible or not and public or not; dec has a field of type leaf, bar *)
(* a field of type dec and one of type leaf; and the function bar.run.     *)

\* struct leaf[?](bits u8 = 3)
EmbedLeaf(p, s) == Struct("leaf", p, s, << Field("bits", TypeName("u8"), <<3>>) >>)

\* struct dec[?](inner leaf)
EmbedDec(p, s) == Struct("dec", p, s, << Field("inner", TypeName("leaf"), <<>>) >>)

\* struct bar[?](stack [4] u8, sub dec, tail leaf)
EmbedBar(p, s) ==
    Struct("bar", p, s,
           << Field("stack", TypeArray(4, TypeName("u8")), <<>>),
              Field("sub", TypeName("dec"), <<>>), Field("tail", TypeName("leaf"), <<>>) >>)

InitEmbed ==
    /\ pkgName = <<"f","o","o">>
    /\ \E p \in [1..3 -> BOOLEAN], s \in [1..3 -> BOOLEAN], fp \in BOOLEAN :
          files = << EmbedLeaf(p[1], s[1]), EmbedDec(p[2], s[2]), EmbedBar(p[3], s[3]),
                     Func("bar", "run", fp, TRUE,
                          << Field("src", TypeName("buf1"), <<>>),
                             Field("dst", TypeName("buf1"), <<>>) >>,
                          << Assign(LocalX, "KeyEq", ReadU8) >>) >>
    /\ declIdx = 0
    /\ statusList = <<>>
    /\ statusMap = <<>>
    /\ buffer = <<>>
    /\ phase = "gather"
    /\ err = ""
    /\ perFunc = NoPerFunc
    /\ mem = <<>>
    /\ io = NoIO
    /\ call = NoCall
    /\ hist = NoHist

SpecEmbed == InitEmbed /\ [][NextFunc]_vars

Next ==
    \/ GatherStatuses
    \/ GatherDone
    \/ genHeader
    \/ genImpl
    \/ StatusStringCall
    \/ StatusIsErrorCall

Spec == Init /\ [][Next]_vars

---------------------------------------------------------------------------
(* The JPEG decoder's decode_mcu (src/std/jpeg/decode_mcu_default.wuffs):  *)
(* the Huffman decoding of the blocks of one MCU from the bitstream        *)
(* buffer, which returns 1 when fewer than 8 bytes are there and is called *)
(* again after the caller has filled the buffer.                           *)
(*                                                                         *)
(* The decoder struct is held in mem, the bytes of the scan in io, the     *)
(* frame of the call in progress (its locals and the loop it is in) in     *)
(* call, and the coefficients decoded for the MCU in hand in hist.  A u64  *)
(* is a tuple of 64 bits, the most significant first.                      *)

Zeros(k) == [i \in 1..k |-> 0]

BitsOfByte(b) == [i \in 1..8 |-> (b \div (2 ^ (8 - i))) % 2]

RECURSIVE BitsValue(_)
BitsValue(bs) ==
    IF bs = <<>> THEN 0
    ELSE 2 * BitsValue(SubSeq(bs, 1, Len(bs) - 1)) + bs[Len(bs)]

\* x ~mod<< k, x >> k and x | y on a u64; the k most significant bits as a number.
Shl64(x, k) == SubSeq(x, k + 1, 64) \o Zeros(k)

Shr64(x, k) == Zeros(k) \o SubSeq(x, 1, 64 - k)

Or64(x, y) == [i \in 1..64 |-> IF x[i] + y[i] > 0 THEN 1 ELSE 0]

TopBits(x, k) == BitsValue(SubSeq(x, 1, k))

\* a ~mod- b on a u32.  A difference that wraps is beyond the integers of
\* the checker, which stops with an overflow if one is ever computed.
SubU32(a, b) == IF a >= b THEN a - b ELSE (65536 * 65536) - (b - a)

\* n | 56 and n & 63.
Or56(n) == n - ((n \div 8) % 8) * 8 + 56

And63(n) == n % 64

\* A u32 as its two 16-bit halves <<high, low>>: a ~mod+ b, and
\* 0xFFFF_FFFF ~mod<< s for s up to 15.
AddU32(a, b) ==
    <<(a[1] + b[1] + ((a[2] + b[2]) \div 65536)) % 65536, (a[2] + b[2]) % 65536>>

AllOnesShl(s) == <<65535, (65535 * (2 ^ s)) % 65536>>

\* EXTEND: value ~mod+= 1 ~mod+ ((0xFFFF_FFFF as base.u32) ~mod<< s)
Extend(value, s) == AddU32(<<0, value>>, AddU32(<<0, 1>>, AllOnesShl(s)))

\* r.peek_u64be() with the reader at position r of the buffer.
peek_u64be(this, r) ==
    [i \in 1..64 |->
        BitsOfByte(this.bitstream_buffer[r + 1 + ((i - 1) \div 8)])[((i - 1) % 8) + 1]]

\* r.length(): the bytes from the reader's position to bitstream_wi.
ReaderLength(this, f) == this.bitstream_wi - f.r

\* Load at least 31 bits, by keeping 56 .. 64 loaded.
LoadBits(this, f) ==
    [f EXCEPT !.bits = Or64(@, Shr64(peek_u64be(this, f.r), And63(f.n_bits))),
              !.r = @ + ((63 - And63(f.n_bits)) \div 8),
              !.n_bits = Or56(@)]

\* The Huffman tables of the scan, as the table builder left them.  A code
\* of up to 8 bits is in the fast table under every byte it is a prefix of,
\* as (bit length << 8) | symbol; the other bytes hold 0xFFFF.  The slow
\* table holds, for each bit length minus 1, (the first code that is too
\* large << 8) | (the index of the first symbol minus the first code, mod
\* 256).  Tables 0..3 are DC tables, tables 4..7 AC tables.
ShortCodes(h) ==
    IF h < 4
    THEN { <<<<0>>, 0>>, <<<<1, 0>>, 1>>, <<<<1, 1, 0>>, 2>> }
    ELSE { <<<<0, 0>>, 0>>, <<<<0, 1>>, 1>>, <<<<1, 0, 0>>, 240>>,
           <<<<1, 0, 1>>, 241>>, <<<<1, 1, 0>>, 209>> }

huff_tables_fast(h, byte) ==
    LET matching == { c \in ShortCodes(h) : SubSeq(BitsOfByte(byte), 1, Len(c[1])) = c[1] }
    IN  IF matching = {} THEN 65535
        ELSE LET c == CHOOSE c \in matching : TRUE IN Len(c[1]) * 256 + c[2]

\* One code of 9 bits, 111000000, and one of 10 bits, 1110000010.
huff_tables_slow(h, blm1) ==
    CASE blm1 = 8 -> 449 * 256 + 64
      [] blm1 = 9 -> 899 * 256 + 127
      [] OTHER    -> 0

huff_tables_symbols(h, i) ==
    IF h < 4 THEN (IF i = 0 THEN 15 ELSE IF i = 1 THEN 3 ELSE 0)
    ELSE (IF i = 0 THEN 2 ELSE IF i = 1 THEN 15 ELSE 0)

\* The loop over the longer codes: d = [bits, n_bits, code, blm1, symbol].
RECURSIVE HuffSlow(_, _)
HuffSlow(d, h) ==
    With(huff_tables_slow(h, d.blm1), LAMBDA slow :
      IF d.code < slow \div 256
      THEN [d EXCEPT !.symbol = huff_tables_symbols(h, (d.code + slow) % 256)]
      ELSE With([d EXCEPT !.code = 2 * @ + d.bits[1],
                          !.bits = Shl64(@, 1),
                          !.n_bits = SubU32(@, 1),
                          !.blm1 = (@ + 1) % 16],
                LAMBDA next : IF next.blm1 = 0 THEN [next EXCEPT !.symbol = 0]
                              ELSE HuffSlow(next, h)))

\* Read the Huffman-encoded symbol, up to 16 bits long: the frame with the
\* code's bits taken, and the symbol under the mask of its kind.
HuffDecode(f, h, mask) ==
    With(huff_tables_fast(h, TopBits(f.bits, 8)), LAMBDA fast :
      IF f.n_bits >= fast \div 256
      THEN [f |-> [f EXCEPT !.bits = Shl64(@, And63(fast \div 256)),
                            !.n_bits = @ - (fast \div 256)],
            symbol |-> fast % (mask + 1)]
      ELSE With(HuffSlow([bits |-> Shl64(f.bits, 9), n_bits |-> SubU32(f.n_bits, 9),
                          code |-> TopBits(f.bits, 9), blm1 |-> 8, symbol |-> 0], h),
                LAMBDA d : [f |-> [f EXCEPT !.bits = d.bits, !.n_bits = d.n_bits],
                            symbol |-> d.symbol % (mask + 1)]))

\* The value in the next s bits (s up to 15), extended per section F.2.2.1,
\* as a u16; and the frame with those bits taken.
ValueBits(f, s) ==
    IF f.bits[1] = 0 THEN Extend(TopBits(f.bits, s), s)[2] ELSE TopBits(f.bits, s)

TakeBits(f, s) == [f EXCEPT !.bits = Shl64(@, s), !.n_bits = SubU32(@, s)]

\* UNZIG: the zig-zag order, and 63 for the 16 indices past the end.
UNZIG ==
    << 0,  1,  8, 16,  9,  2,  3, 10, 17, 24, 32, 25, 18, 11,  4,  5,
      12, 19, 26, 33, 40, 48, 41, 34, 27, 20, 13,  6,  7, 14, 21, 28,
      35, 42, 49, 56, 57, 50, 43, 36, 29, 22, 15, 23, 30, 37, 44, 51,
      58, 59, 52, 45, 38, 31, 39, 46, 53, 60, 61, 54, 47, 55, 62, 63,
      63, 63, 63, 63, 63, 63, 63, 63, 63, 63, 63, 63, 63, 63, 63, 63 >>

\* One turn of while.dc_component, entered with mcu_zig_index <= 0:
\* [this, f, w], w the coefficient written if one was.
dc_component(this, f) ==
    IF ReaderLength(this, f) < 8
    THEN [this |-> this, f |-> [f EXCEPT !.ret = 1, !.pc = "done"], w |-> <<>>]
    ELSE With(HuffDecode(LoadBits(this, f),
                         this.scan_comps_td[this.mcu_blocks_sselector[this.mcu_current_block + 1] + 1],
                         15),
         LAMBDA d :
           With((this.mcu_previous_dc_values[
                     this.scan_comps_cselector[
                         this.mcu_blocks_sselector[this.mcu_current_block + 1] + 1] + 1]
                   + ValueBits(d.f, d.symbol)) % 65536,
           LAMBDA dc :
             [this |-> [this EXCEPT
                          !.mcu_previous_dc_values[
                              this.scan_comps_cselector[
                                  this.mcu_blocks_sselector[this.mcu_current_block + 1] + 1] + 1] = dc,
                          !.mcu_blocks[this.mcu_current_block + 1][1] = dc,
                          !.mcu_zig_index = 1],
              f |-> [TakeBits(d.f, d.symbol) EXCEPT !.pc = "ac"],
              w |-> << [block |-> this.mcu_current_block, z |-> 0] >>]))

\* The end of a block: mcu_zig_index = 0, mcu_current_block += 1.
EndBlock(this) ==
    [this EXCEPT !.mcu_zig_index = 0, !.mcu_current_block = @ + 1]

\* while.ac_components with a request for more bytes that starts the block anew.
ac_componentsFromStart(this, f) ==
    IF ReaderLength(this, f) < 8
    THEN [this |-> [this EXCEPT !.mcu_zig_index = 0],
          f |-> [f EXCEPT !.ret = 1, !.pc = "done"], w |-> <<>>]
    ELSE With(HuffDecode(LoadBits(this, f),
                         4 + this.scan_comps_ta[this.mcu_blocks_sselector[this.mcu_current_block + 1] + 1],
                         255),
         LAMBDA d :
           With([ac_rrrr |-> d.symbol \div 16, ac_ssss |-> d.symbol % 16], LAMBDA s :
             IF s.ac_ssss > 0
             THEN With(this.mcu_zig_index + s.ac_rrrr, LAMBDA z :
                    With([this EXCEPT !.mcu_blocks[this.mcu_current_block + 1][UNZIG[z + 1] + 1] =
                                          ValueBits(d.f, s.ac_ssss)],
                    LAMBDA written :
                      [this |-> IF z + 1 > 63 THEN EndBlock(written)
                                ELSE [written EXCEPT !.mcu_zig_index = z + 1],
                       f |-> [TakeBits(d.f, s.ac_ssss) EXCEPT
                                 !.z = z, !.pc = IF z + 1 > 63 THEN "block" ELSE "ac"],
                       w |-> << [block |-> this.mcu_current_block, z |-> z] >>]))
             ELSE IF s.ac_rrrr < 15 \/ this.mcu_zig_index + 16 > 63
             THEN [this |-> EndBlock(this), f |-> [d.f EXCEPT !.pc = "block"], w |-> <<>>]
             ELSE [this |-> [this EXCEPT !.mcu_zig_index = @ + 16], f |-> d.f, w |-> <<>>]))

\* One turn of while.ac_components; a turn that breaks out of the loop ends
\* the block.
ac_components(this, f) ==
    IF ReaderLength(this, f) < 8
    THEN [this |-> this, f |-> [f EXCEPT !.ret = 1, !.pc = "done"], w |-> <<>>]
    ELSE With(HuffDecode(LoadBits(this, f),
                         4 + this.scan_comps_ta[this.mcu_blocks_sselector[this.mcu_current_block + 1] + 1],
                         255),
         LAMBDA d :
           With([ac_rrrr |-> d.symbol \div 16, ac_ssss |-> d.symbol % 16], LAMBDA s :
             IF s.ac_ssss > 0
             THEN With(this.mcu_zig_index + s.ac_rrrr, LAMBDA z :
                    With([this EXCEPT !.mcu_blocks[this.mcu_current_block + 1][UNZIG[z + 1] + 1] =
                                          ValueBits(d.f, s.ac_ssss)],
                    LAMBDA written :
                      [this |-> IF z + 1 > 63 THEN EndBlock(written)
                                ELSE [written EXCEPT !.mcu_zig_index = z + 1],
                       f |-> [TakeBits(d.f, s.ac_ssss) EXCEPT
                                 !.z = z, !.pc = IF z + 1 > 63 THEN "block" ELSE "ac"],
                       w |-> << [block |-> this.mcu_current_block, z |-> z] >>]))
             ELSE IF s.ac_rrrr < 15 \/ this.mcu_zig_index + 16 > 63
             THEN [this |-> EndBlock(this), f |-> [d.f EXCEPT !.pc = "block"], w |-> <<>>]
             ELSE [this |-> [this EXCEPT !.mcu_zig_index = @ + 16], f |-> d.f, w |-> <<>>]))

---------------------------------------------------------------------------
(* decode_mcu at work: scans of one or two encoded blocks followed by zero *)
(* bytes, an MCU of one or two blocks, and a caller who fills the          *)
(* bitstream buffer a few bytes at a time between the calls.               *)

MaxMcuCalls == 3

MaxScanBlocks == 2

\* The zero bytes after the encoded blocks.
PadBytes == 16

\* The code words, each with the bits of its value: DC symbols 0, 1, 2 and
\* 15; AC symbols 0x00 (end of block), 0x01, 0xF0 (a run of 16 zeros),
\* 0xF1, 0xD1, 0x02 and 0x0F; and sixteen 1 bits, which are no code.
Dc0 == <<0>>
Dc1(v) == <<1, 0, v>>
Dc2(v, w) == <<1, 1, 0, v, w>>
Dc15 == <<1, 1, 1, 0, 0, 0, 0, 0, 0>> \o <<0, 1, 1, 0, 1, 0, 0, 1, 0, 1, 1, 0, 0, 1, 1>>
Eob == <<0, 0>>
Ac01(v) == <<0, 1, v>>
Zrl == <<1, 0, 0>>
AcF1(v) == <<1, 0, 1, v>>
AcD1(v) == <<1, 1, 0, v>>
Ac02(v, w) == <<1, 1, 1, 0, 0, 0, 0, 0, 0, v, w>>
Ac0F == <<1, 1, 1, 0, 0, 0, 0, 0, 1, 0>> \o <<1, 0, 0, 1, 1, 0, 1, 0, 1, 1, 0, 0, 0, 1, 1>>
NoCode == [i \in 1..16 |-> 1]

RECURSIVE Repeat(_, _)
Repeat(s, n) == IF n = 0 THEN <<>> ELSE s \o Repeat(s, n - 1)

\* The encoded blocks: one coefficient after the first; runs of 16 zeros up
\* to the end; runs of 15 and 13 up to index 63 and a run of 15 from there;
\* codes of 9 and 10 bits and sixteen bits that are no code; coefficients
\* one by one up to index 63.
ScanBlocks ==
    { Dc1(1) \o Ac01(1) \o Eob,
      Dc0 \o Zrl \o Zrl \o Zrl \o Zrl,
      Dc1(0) \o AcF1(0) \o AcF1(1) \o AcF1(0) \o AcD1(1) \o AcF1(1),
      Dc15 \o Ac02(0, 1) \o Ac0F \o NoCode,
      Dc2(1, 0) \o AcF1(1) \o AcF1(1) \o AcF1(0) \o Repeat(Ac01(1), 15) }

RECURSIVE Concat(_)
Concat(ss) == IF ss = <<>> THEN <<>> ELSE Head(ss) \o Concat(Tail(ss))

\* The bits as bytes, the last byte filled with zeros.
BytesOfBits(bs) ==
    [i \in 1..((Len(bs) + 7) \div 8) |->
        BitsValue([j \in 1..8 |-> IF 8 * (i - 1) + j <= Len(bs) THEN bs[8 * (i - 1) + j] ELSE 0])]

Scans ==
    { BytesOfBits(Concat(bl)) \o Zeros(PadBytes) :
        bl \in SeqsUpTo(ScanBlocks, MaxScanBlocks) \ { <<>> } }

\* The decoder before the first call for a scan of n blocks per MCU whose
\* buffer has room for len bytes; ri is 0, or 1 with nothing written: the
\* indices crossed, which the function tests on entry.
Decoder(len, n, ri) ==
    [ bitstream_bits |-> Zeros(64), bitstream_n_bits |-> 0,
      bitstream_ri |-> ri, bitstream_wi |-> 0,
      bitstream_buffer |-> Zeros(len),
      mcu_current_block |-> 0, mcu_num_blocks |-> n, mcu_zig_index |-> 0,
      mcu_blocks |-> [b \in 1..10 |-> Zeros(64)],
      mcu_previous_dc_values |-> Zeros(4),
      mcu_blocks_sselector |-> [b \in 1..10 |-> (b - 1) % 2],
      scan_comps_td |-> <<0, 1, 0, 0>>, scan_comps_ta |-> <<0, 1, 0, 0>>,
      scan_comps_cselector |-> <<0, 1, 2, 3>> ]

Idle(ret) == [fn |-> "decode_mcu", pc |-> "idle", ret |-> ret]

\* The history: the calls that have returned, the coefficients decoded for
\* the MCU in hand, whether a call went on with an MCU of which an earlier
\* call had decoded a part, and what the last call left: the number of
\* coefficients decoded, the block and coefficient named by
\* mcu_current_block and mcu_zig_index, and the bytes left to read.
NoWrites == [n |-> 0, writes |-> <<>>, resumed |-> FALSE, from |-> 0,
             at |-> [block |-> 0, z |-> 0], left |-> 0]

InitMcu ==
    /\ pkgName = <<>>
    /\ files = <<>>
    /\ declIdx = 0
    /\ statusList = <<>>
    /\ statusMap = <<>>
    /\ buffer = <<>>
    /\ phase = "done"
    /\ err = ""
    /\ perFunc = NoPerFunc
    /\ io \in Scans
    /\ \E nr \in { <<1, 0>>, <<2, 0>>, <<1, 1>> } : mem = Decoder(Len(io), nr[1], nr[2])
    /\ call = Idle(<<>>)
    /\ hist = NoWrites

\* The caller fills the buffer: the next bytes of the scan, 5 or 12 at most.
fill_bitstream ==
    /\ call.pc = "idle"
    /\ mem.bitstream_wi < Len(io)
    /\ \E k \in {5, 12} :
         \E wi \in { IF mem.bitstream_wi + k > Len(io) THEN Len(io) ELSE mem.bitstream_wi + k } :
          mem' = [mem EXCEPT !.bitstream_wi = wi,
                             !.bitstream_buffer =
                                 [i \in 1..Len(io) |-> IF i <= wi THEN io[i] ELSE 0]]
    /\ UNCHANGED <<genVars, io, call, hist>>

\* The call starts: bits and n_bits are read, and the function returns 2 if
\* bitstream_ri > bitstream_wi; else the reader is bound to
\* bitstream_buffer[bitstream_ri .. bitstream_wi].
decode_mcu_enter ==
    /\ call.pc = "idle"
    /\ hist.n < MaxMcuCalls
    /\ IF mem.bitstream_ri > mem.bitstream_wi
       THEN /\ call' = Idle(<<2>>)
            /\ hist' = [hist EXCEPT !.n = @ + 1]
       ELSE /\ call' = [fn |-> "decode_mcu", pc |-> "block", ret |-> 0,
                        bits |-> mem.bitstream_bits, n_bits |-> mem.bitstream_n_bits,
                        r |-> mem.bitstream_ri, z |-> 0]
            /\ hist' = IF call.ret = <<1>>
                       THEN [hist EXCEPT !.resumed = @ \/ hist.writes # <<>>]
                       ELSE [hist EXCEPT !.writes = <<>>, !.resumed = FALSE, !.from = 0]
    /\ UNCHANGED <<genVars, mem, io>>

\* The test of while.block, with that of while.dc_component for a block
\* that goes on; after the loop, mcu_current_block = 0.
while_block ==
    /\ call.pc = "block"
    /\ IF mem.mcu_current_block < mem.mcu_num_blocks
       THEN /\ call' = [call EXCEPT !.pc = IF mem.mcu_zig_index <= 0 THEN "dc" ELSE "ac"]
            /\ mem' = mem
       ELSE /\ call' = [call EXCEPT !.pc = "done"]
            /\ mem' = [mem EXCEPT !.mcu_current_block = 0]
    /\ UNCHANGED <<genVars, io, hist>>

while_dc_component ==
    /\ call.pc = "dc"
    /\ \E t \in { dc_component(mem, call) } :
          /\ mem' = t.this
          /\ call' = t.f
          /\ hist' = [hist EXCEPT !.writes = @ \o t.w]
    /\ UNCHANGED <<genVars, io>>

while_ac_components ==
    /\ call.pc = "ac"
    /\ \E t \in { ac_components(mem, call) } :
          /\ mem' = t.this
          /\ call' = t.f
          /\ hist' = [hist EXCEPT !.writes = @ \o t.w]
    /\ UNCHANGED <<genVars, io>>

\* The end of the call: the reader's position becomes bitstream_ri unless it
\* is past bitstream_wi, bits and n_bits are stored, ret is returned.
decode_mcu_leave ==
    /\ call.pc = "done"
    /\ mem' = [mem EXCEPT !.bitstream_ri = IF call.r > mem.bitstream_wi THEN @ ELSE call.r,
                          !.bitstream_bits = call.bits,
                          !.bitstream_n_bits = call.n_bits]
    /\ call' = Idle(<< IF call.r > mem.bitstream_wi THEN 2 ELSE call.ret >>)
    /\ hist' = [hist EXCEPT !.n = @ + 1, !.from = Len(hist.writes),
                            !.at = [block |-> mem.mcu_current_block,
                                    z |-> mem.mcu_zig_index],
                            !.left = mem.bitstream_wi -
                                       (IF call.r > mem.bitstream_wi THEN mem.bitstream_ri
                                        ELSE call.r)]
    /\ UNCHANGED <<genVars, io>>

NextMcu ==
    \/ fill_bitstream
    \/ decode_mcu_enter
    \/ while_block
    \/ while_dc_component
    \/ while_ac_components
    \/ decode_mcu_leave

SpecMcu == InitMcu /\ [][NextMcu]_vars

---------------------------------------------------------------------------
(* Status codes: the claims. *)

\* The messages of the built-in statuses, in their fixed order.
BuiltInMessages == <<
    <<"o","k">>,
    <<"b","a","d"," ","v","e","r","s","i","o","n">>,
    <<"b","a","d"," ","r","e","c","e","i","v","e","r">>,
    <<"b","a","d"," ","a","r","g","u","m","e","n","t">>,
    <<"c","o","n","s","t","r","u","c","t","o","r"," ","n","o","t"," ","c","a","l","l","e","d">>,
    <<"u","n","e","x","p","e","c","t","e","d"," ","E","O","F">>,
    <<"s","h","o","r","t"," ","r","e","a","d">>,
    <<"s","h","o","r","t"," ","w","r","i","t","e">>,
    <<"c","l","o","s","e","d"," ","f","o","r"," ","w","r","i","t","e","s">> >>

NumBuiltIn == Len(BuiltInMessages)

\* Which built-in statuses are errors, by index.
BuiltInIsError(i) == HasPrefix(builtInStatuses[i], S_error)

Emitted == LinesOf(buffer, "enum")

EmittedValues == { EnumValue(Emitted[i]) : i \in DOMAIN Emitted }

Unquoted(m) == SubSeq(m, 2, Len(m) - 1)

HeaderWritten == phase \in {"impl", "done"}

\* C1: the built-in status at index i has the value -2*i, the j-th
\* user-defined one -2*(128+j), each plus 1 iff it is an error; so every value
\* is <= 0, its least significant bit says whether it is an error, 0 is ok,
\* -1 is bad version, and no two statuses share a value.
C1_StatusNumbering ==
    HeaderWritten =>
        /\ Len(Emitted) = NumBuiltIn + Len(files)
        /\ \A i \in 1..NumBuiltIn :
              /\ EnumValue(Emitted[i]) = -2 * (i - 1) + (IF BuiltInIsError(i) THEN 1 ELSE 0)
              /\ And1(EnumValue(Emitted[i])) = 1 <=> BuiltInIsError(i)
        /\ \A j \in 1..Len(files) :
              /\ EnumValue(Emitted[NumBuiltIn + j]) =
                    -2 * (128 + (j - 1)) + (IF files[j].keyword = KeyError THEN 1 ELSE 0)
              /\ And1(EnumValue(Emitted[NumBuiltIn + j])) = 1 <=> files[j].keyword = KeyError
        /\ \A i \in DOMAIN Emitted :
              /\ EnumValue(Emitted[i]) <= 0
              /\ EnumValue(Emitted[i]) = 0 <=> i = 1
              /\ EnumValue(Emitted[i]) = -1 <=> i = 2
              /\ \A k \in DOMAIN Emitted : k # i => EnumValue(Emitted[k]) # EnumValue(Emitted[i])
        /\ Emitted[1].name = S_puffs \o pkgName \o <<"_","s","t","a","t","u","s","_","o","k">>
        /\ Emitted[2].name = S_puffs \o pkgName
                \o <<"_","e","r","r","o","r","_","b","a","d","_","v","e","r","s","i","o","n">>

\* A header with a user-defined error and a user-defined recoverable status.
C1_Witness ==
    /\ HeaderWritten
    /\ Len(files) = 2
    /\ files[1].keyword = KeyError
    /\ files[2].keyword = KeyStatus
    /\ EnumValue(Emitted[NumBuiltIn + 1]) = -255
    /\ EnumValue(Emitted[NumBuiltIn + 2]) = -258

\* C2: status_string, called with the value of an emitted status, returns
\* "PKG: " followed by that status's message; the strings table has
\* |builtInStatuses| + U entries.
C2_StatusStringRoundTrip ==
    /\ phase = "done" =>
          /\ LinesOf(buffer, "strings_decl")[1].a = NumBuiltIn + Len(files)
          /\ Len(LinesOf(buffer, "string")) = NumBuiltIn + Len(files)
    /\ call.fn = "status_string" =>
          /\ \A i \in 1..NumBuiltIn :
                call.arg = EnumValue(Emitted[i])
                    => call.ret = pkgName \o S_colon \o BuiltInMessages[i]
          /\ \A j \in 1..Len(files) :
                call.arg = EnumValue(Emitted[NumBuiltIn + j])
                    => call.ret = pkgName \o S_colon \o Unquoted(files[j].message)

\* status_string has been called with the second of two user-defined statuses.
C2_Witness ==
    /\ call.fn = "status_string"
    /\ Len(files) = 2
    /\ files[1].message # files[2].message
    /\ call.arg = EnumValue(Emitted[NumBuiltIn + 2])
    /\ call.ret = pkgName \o S_colon \o Unquoted(files[2].message)

\* C3: status_string returns "PKG: unknown status" for every input that is
\* not the value of an emitted status.
C3_UnknownStatus ==
    (call.fn = "status_string" /\ call.arg \notin EmittedValues)
        => call.ret = pkgName \o S_colon \o S_unknown

---------------------------------------------------------------------------
(* Properties of the lowered function. *)

\* The one function of the package, and its lines in the buffer.
TheFunc == funcsOf("bothPubPri")[1]

Lowered == phase = "done" /\ err = "" /\ Len(funcsOf("bothPubPri")) = 1

FuncStart == CHOOSE i \in DOMAIN buffer : buffer[i].k = "func_open"

FuncLines == SubSeq(buffer, FuncStart, Len(buffer))

\* The suspendible calls of an expression in source order: those of the LHS,
\* of the MHS, of the RHS, of the arguments, then the node itself, each named
\* by its method.
RECURSIVE SourceOrderCalls(_)
RECURSIVE SourceOrderCallsOfAll(_, _)
SourceOrderCalls(n) ==
    IF n.kind = "KArg" THEN SourceOrderCalls(n.value)
    ELSE SourceOrderCallsOfAll(SubNodes(n), 1) \o SourceOrderCallsOfAll(n.args, 1)
         \o (IF n.callSuspendible THEN <<n.lhs[1].id1>> ELSE <<>>)

SourceOrderCallsOfAll(nodes, i) ==
    IF i > Len(nodes) THEN <<>>
    ELSE SourceOrderCalls(nodes[i]) \o SourceOrderCallsOfAll(nodes, i + 1)

\* What a statement is to produce, in order: the hoisted block of each of its
\* suspendible calls, then the statement's own line.
ExpectedOfStatement(o) ==
    CASE o.kind = "KAssign" -> SourceOrderCalls(o.lhs) \o SourceOrderCalls(o.rhs) \o <<"assign">>
      [] o.kind = "KVar"    -> SourceOrderCallsOfAll(o.value, 1) \o <<"var_init">>
      [] o.kind = "KExpr"   -> SourceOrderCalls(o)
      [] OTHER              -> <<>>

RECURSIVE ExpectedOfBody(_, _)
ExpectedOfBody(body, i) ==
    IF i > Len(body) THEN <<>>
    ELSE ExpectedOfStatement(body[i]) \o ExpectedOfBody(body, i + 1)

\* What was produced: the first line of each hoisted block, and the lines of
\* the assignments and initialisations.
BlockOfLine(k) ==
    CASE k = "read_u8_check"      -> <<"read_u8">>
      [] k = "write_check_closed" -> <<"write">>
      [] k = "write_u8_check"     -> <<"write_u8">>
      [] k = "decode_header_call" -> <<"decode_header">>
      [] k = "assign"             -> <<"assign">>
      [] k = "var_init"           -> <<"var_init">>
      [] OTHER                    -> <<>>

RECURSIVE EmittedOfLines(_, _)
EmittedOfLines(ls, i) ==
    IF i > Len(ls) THEN <<>> ELSE BlockOfLine(ls[i].k) \o EmittedOfLines(ls, i + 1)

\* C8: in a lowered function the hoisted blocks of the suspendible calls of
\* each statement come before the statement's own line and in source order:
\* left operand, middle operand, right operand, arguments, then the call
\* itself; so a suspendible call that is an argument of another one has its
\* block before the outer call's block.
C8_EvaluationOrder ==
    Lowered => EmittedOfLines(FuncLines, 1) = ExpectedOfBody(TheFunc.body, 1)

\* The lines on which a hoisted block leaves the function when its call fails.
ExitKinds == {"read_u8_check", "write_check_closed", "write_check_space",
              "write_u8_check", "decode_header_check"}

CountLines(ls, k) == Len(SelectSeq(ls, LAMBDA l : l.k = k))

\* C9: in a lowered function every hoisted block leaves on failure by
\* "goto cleanup0;" if the function is public and suspendible and by
\* "return status;" if not, and a function that holds a "goto cleanup0;"
\* holds exactly one "cleanup0:" label.
C9_FailureExit ==
    Lowered =>
        /\ \A i \in DOMAIN FuncLines :
              FuncLines[i].k \in ExitKinds =>
                  FuncLines[i].x = IF TheFunc.public /\ TheFunc.suspendible
                                   THEN "goto cleanup0;" ELSE "return status;"
        /\ (\E i \in DOMAIN FuncLines : FuncLines[i].x = "goto cleanup0;")
              => CountLines(FuncLines, "cleanup0_label") = 1

\* The return statements of the body and the lines they were lowered to.
ReturnsOf(body) == SelectSeq(body, LAMBDA o : o.kind = "KReturn")

ReturnLines ==
    SelectSeq(FuncLines, LAMBDA l : l.k \in {"return_void", "status_goto", "return_name"})

\* C10: each return statement of a lowered function becomes
\* "status = NAME; goto cleanup0;" in a public suspendible function, whose
\* "cleanup0:" line then writes the status back, "return NAME;" in a private
\* suspendible function and "return;" in a function that is not suspendible;
\* NAME is puffs_PKG_status_ok for a return without a status keyword.
C10_ReturnShape ==
    Lowered =>
        /\ Len(ReturnLines) = Len(ReturnsOf(TheFunc.body))
        /\ \A i \in DOMAIN ReturnLines :
              LET l == ReturnLines[i]
                  o == ReturnsOf(TheFunc.body)[i]
              IN  /\ IF ~TheFunc.suspendible THEN l.k = "return_void" /\ l.x = "return;"
                     ELSE IF TheFunc.public
                     THEN /\ l.k = "status_goto" /\ l.x = "goto cleanup0;"
                          /\ CountLines(FuncLines, "cleanup0_label") = 1
                     ELSE l.k = "return_name" /\ l.x = "return NAME;"
                  /\ (TheFunc.suspendible /\ o.keyword = "")
                        => l.name = S_puffs \o pkgName \o <<"_","s","t","a","t","u","s","_","o","k">>

\* A public suspendible function with both kinds of return has been lowered.
C10_Witness ==
    /\ Lowered
    /\ TheFunc.public /\ TheFunc.suspendible
    /\ \E i, j \in DOMAIN ReturnLines :
          /\ ReturnsOf(TheFunc.body)[i].keyword = ""
          /\ ReturnsOf(TheFunc.body)[j].keyword = KeyError
          /\ ReturnLines[j].name # ReturnLines[i].name

---------------------------------------------------------------------------
(* Properties of the emitted code at work. *)

StatusCell == <<"status">>

MagicCell == <<"magic">>

\* The last call was made on the struct, not on a null pointer.
OnStruct(fn) == call.fn = fn /\ call.self # NULL

\* The lines of a function past its checks of the receiver, the status and
\* the magic number: the argument checks and the body.
ArgCheckKinds == {"if_bad_args", "if_bad_args_self", "if_bad_args_void"}

BodyKinds == {"read_u8_check", "read_u8_load", "write_u8_check", "write_u8_store",
              "write_check_closed", "write_check_space", "write_memmove", "write_advance",
              "decode_header_call", "decode_header_check", "assign", "var_init",
              "var_array_init", "status_goto", "return_name", "return_void",
              "if_open", "while_open", "goto_label"}

Ran(kinds) == \E i \in DOMAIN call.trace : call.trace[i] \in kinds

\* C4: a constructor call with a wrong version on a struct sets its status
\* to bad version (-1) and changes no other cell and calls no constructor,
\* whatever the memory held; from then on every call of the public
\* suspendible method on the struct returns -1 and runs neither the argument
\* checks nor the body; the constructor and the destructor on a null pointer
\* change nothing.
C4_VersionMismatch ==
    /\ (OnStruct("constructor") /\ call.arg[1] # PUFFS_VERSION)
          => /\ mem = [call.mem0 EXCEPT ![StatusCell] = -1]
             /\ ~Ran({"ctor_call", "ctor_set_magic", "ctor_memset_if_not_zeroed"})
    /\ (hist.mismatch /\ OnStruct("run"))
          => /\ call.ret = <<-1>>
             /\ mem = call.mem0 /\ io = call.io0
             /\ ~Ran(ArgCheckKinds \cup BodyKinds)
    /\ (call.fn \in {"constructor", "destructor"} /\ call.self = NULL)
          => mem = call.mem0 /\ io = call.io0 /\ call.trace = <<>>

\* The third call is a call of run on a struct whose constructor was called
\* with a wrong version over memory that held the magic number.
C4_Witness ==
    /\ hist.mismatch /\ OnStruct("run") /\ hist.n = 3
    /\ mem[MagicCell] = PUFFS_MAGIC
    /\ call.ret = <<-1>>

\* The struct at the path self is as its constructor leaves it: status ok,
\* the magic number, the declared defaults, zero in the other scalar fields,
\* and the same for each embedded suspendible struct.
RECURSIVE Constructed(_, _)
Constructed(structName, self) ==
    /\ mem[self \o StatusCell] = 0
    /\ mem[self \o MagicCell] = PUFFS_MAGIC
    /\ \A i \in DOMAIN structOf(structName).fields :
          LET f == structOf(structName).fields[i]
          IN  IF inStructMap(f.xtype.name)
              THEN structOf(f.xtype.name).suspendible
                      => Constructed(f.xtype.name, self \o <<fPrefix, f.name>>)
              ELSE mem[self \o <<fPrefix, f.name>>] =
                      IF f.defaultValue # <<>> THEN f.defaultValue[1] ELSE 0

\* C5: after a constructor call with the right version and without the
\* already-zeroed mark, the struct has status ok (0), the magic number, its
\* defaults, zero in its other scalar fields, and its embedded suspendible
\* struct constructed the same way; memory was zeroed once, by the outer
\* constructor alone.
C5_Construction ==
    (OnStruct("constructor") /\ call.arg[1] = PUFFS_VERSION
                             /\ call.arg[2] # PUFFS_ALREADY_ZEROED)
       => /\ Constructed("bar", <<>>)
          /\ Len(SelectSeq(call.trace, LAMBDA k : k = "ctor_memset_if_not_zeroed")) = 1
          /\ Ran({"ctor_call"})

\* A struct with a default was constructed over memory that was not zero.
C5_Witness ==
    /\ OnStruct("constructor") /\ call.arg = <<PUFFS_VERSION, 0>>
    /\ call.mem0[<<fPrefix, "sub", "magic">>] = 85
    /\ mem[<<fPrefix, "count">>] = 7
    /\ mem[<<fPrefix, "sub", fPrefix, "bits">>] = 3

IsError(s) == And1(s) = 1

\* C6: a call of a public method on a struct whose status has its lowest
\* bit set leaves the struct, the buffers and everything else as they were,
\* and the suspendible method returns that status; so the status stays that
\* error over any sequence of such calls.
C6_StickyError ==
    /\ (OnStruct("run") /\ IsError(call.mem0[StatusCell]))
          => /\ call.ret = <<call.mem0[StatusCell]>>
             /\ mem = call.mem0 /\ io = call.io0
             /\ ~Ran(ArgCheckKinds \cup BodyKinds)
    /\ (OnStruct("mark") /\ IsError(call.mem0[StatusCell]))
          => mem = call.mem0 /\ io = call.io0

\* A call of run has left unexpected EOF (-9) in a constructed struct, and
\* the next call of run, which had two bytes to read, returned it.
C6_Witness ==
    /\ OnStruct("run") /\ hist.n = 3
    /\ call.mem0[StatusCell] = -9 /\ call.mem0[MagicCell] = PUFFS_MAGIC
    /\ call.ret = <<-9>>

\* C7: a call of the public suspendible method on a struct whose status is
\* not an error and whose magic number is not PUFFS_MAGIC returns
\* constructor not called (-7), runs neither the argument checks nor the
\* body, and leaves -7 in the struct's status and all else as it was; the
\* next call returns -7 again.
C7_MagicCheck ==
    /\ (OnStruct("run") /\ ~IsError(call.mem0[StatusCell])
                        /\ call.mem0[MagicCell] # PUFFS_MAGIC)
          => /\ call.ret = <<-7>>
             /\ ~Ran(ArgCheckKinds \cup BodyKinds)
             /\ mem = [call.mem0 EXCEPT ![StatusCell] = -7]
             /\ io = call.io0
    /\ (OnStruct("run") /\ call.mem0[StatusCell] = -7) => call.ret = <<-7>>

\* The method was called with an argument out of bounds on a struct no
\* constructor was called on.
C7_Witness ==
    /\ OnStruct("run") /\ call.arg = <<6>>
    /\ call.mem0[StatusCell] = 2 /\ call.mem0[MagicCell] = 2
    /\ call.ret = <<-7>> /\ mem[StatusCell] = -7

---------------------------------------------------------------------------
(* Status names in return statements. *)

\* The status a return statement names: its keyword's prefix and its message
\* without the quotes.
StatusOfReturn(o) ==
    (IF o.keyword = KeyError THEN S_error ELSE S_status)
        \o SubSeq(o.message, 2, Len(o.message) - 1)

\* C11: in a lowered suspendible function, a return statement that names a
\* status, built-in or declared, carries that status's mangled enum name, and
\* the name is never empty.
C11_StatusNameResolution ==
    (Lowered /\ TheFunc.suspendible) =>
        \A i \in DOMAIN ReturnLines :
            LET o == ReturnsOf(TheFunc.body)[i]
            IN  o.keyword # "" =>
                  /\ ReturnLines[i].name # <<>>
                  /\ ReturnLines[i].name = cName(pkgName, StatusOfReturn(o))

---------------------------------------------------------------------------
(* The budget of temporaries. *)

\* C12: a function is emitted only if it allocates at most maxTemp
\* temporaries: whenever no error has been returned the number of temporaries
\* allocated so far is at most maxTemp, and the too-many-temporaries error is
\* not returned while fewer than maxTemp have been allocated.
C12_TemporaryBudget ==
    /\ err = "" => perFunc.tempW <= maxTemp
    /\ err = "too many temporary variables required" => perFunc.tempW >= maxTemp

---------------------------------------------------------------------------
(* Expression statements. *)

\* An expression statement that is a suspendible call of a pattern the
\* emitter knows.
RecognizedCall(o) ==
    /\ o.kind = "KExpr" /\ o.callSuspendible
    /\ \/ isInSrcReadU8(o)
       \/ isInDst(o, "write")
       \/ isInDst(o, "write_u8")
       \/ isThisDecodeHeader(o)

\* writeFuncImpl has been called on the function and has returned.
FuncEmitted == phase \in {"done", "failed"} /\ perFunc.funk # <<>>

\* C13: a function whose body is made of expression statements that are
\* suspendible calls of a recognized pattern is emitted without error, with
\* as many temporaries read as written; a function whose first statement is an
\* expression statement that is not a suspendible call fails with the error
\* for unsupported expression statements.
C13_ExpressionStatements ==
    FuncEmitted =>
        /\ (\A i \in DOMAIN TheFunc.body : RecognizedCall(TheFunc.body[i]))
              => (err = "" /\ perFunc.tempW = perFunc.tempR)
        /\ (/\ TheFunc.body # <<>>
            /\ TheFunc.body[1].kind = "KExpr"
            /\ ~TheFunc.body[1].callSuspendible)
              => err = "TODO: generate code for foo() when foo is not a ? call-suspendible"

---------------------------------------------------------------------------
(* Argument validation. *)

\* The range of values of a numeric type.
NaturalRange(name) ==
    CASE name = "i8"   -> <<-128, 127>>
      [] name = "u8"   -> <<0, 255>>
      [] name = "bool" -> <<0, 1>>
      [] OTHER         -> <<0, IntMax>>

\* The value v is no valid argument for the field o: a null pointer, or a
\* number outside the refinement of the type.
BadArgument(o, v) ==
    IF o.xtype.decorator = "KeyPtr" THEN v = 0
    ELSE IF IsRefined(o.xtype)
    THEN \/ o.xtype.bounds[1] # <<>> /\ v < o.xtype.bounds[1][1]
         \/ o.xtype.bounds[2] # <<>> /\ v > o.xtype.bounds[2][1]
    ELSE FALSE

\* The comparisons the function makes on its arguments.
ArgCheckText ==
    LET ls == SelectSeq(FuncLines, LAMBDA l : l.k \in ArgCheckKinds)
    IN  IF ls = <<>> THEN <<>> ELSE ls[1].text

HasComparison(name, op) ==
    \E j \in 1..(Len(ArgCheckText) - 2) :
        /\ ArgCheckText[j] = aPrefix
        /\ ArgCheckText[j + 1] = name
        /\ ArgCheckText[j + 2] = op

\* The last call was a call of the function on a constructed struct with no
\* error latched.
CalledOnConstructed ==
    /\ call.fn = "run"
    /\ TheFunc.receiver # "" => (call.mem0[StatusCell] = 0 /\ call.mem0[MagicCell] = PUFFS_MAGIC)

\* C14: a call of a public function with a null pointer argument, or with a
\* numeric argument outside the bounds of its refinement, runs no statement of
\* the body and, when the function is suspendible, returns bad argument (-5);
\* and the function compares each argument with each bound of its refinement
\* unless the numeric type's own range implies the bound.
C14_ArgumentValidation ==
    /\ (/\ CalledOnConstructed
        /\ \E i \in DOMAIN TheFunc.in : BadArgument(TheFunc.in[i], call.arg[i]))
          => /\ ~Ran(BodyKinds)
             /\ TheFunc.suspendible => call.ret = <<-5>>
    /\ Built =>
          \A i \in DOMAIN TheFunc.in :
              LET o == TheFunc.in[i]
              IN  IsRefined(o.xtype) =>
                    /\ (o.xtype.bounds[1] # <<>> /\ ~HasComparison(o.name, " < "))
                          => o.xtype.bounds[1][1] <= NaturalRange(o.xtype.name)[1]
                    /\ (o.xtype.bounds[2] # <<>> /\ ~HasComparison(o.name, " > "))
                          => o.xtype.bounds[2][1] >= NaturalRange(o.xtype.name)[2]

---------------------------------------------------------------------------
(* Properties of the backend on a package. *)

\* generate() has returned, with or without an error.
Generated == phase \in {"done", "failed"}

\* The lines of the i-th function of the package past its opening line.
FuncOpenAt(i) ==
    CHOOSE j \in DOMAIN buffer :
        /\ buffer[j].k = "func_open"
        /\ Cardinality({ h \in 1..j : buffer[h].k = "func_open" }) = i

FuncBodyLines(i) ==
    LET rest == SubSeq(buffer, FuncOpenAt(i) + 1, Len(buffer))
    IN  SubSeq(rest, 1, FirstIndex(rest, LAMBDA l : l.k = "func_close"))

\* Two functions that differ in their names only.
SameButName(f, g) ==
    /\ f.receiver = g.receiver /\ f.public = g.public /\ f.suspendible = g.suspendible
    /\ f.in = g.in /\ f.body = g.body

LinesOfKind(k) == { i \in DOMAIN buffer : buffer[i].k = k }

\* C16: when generate() succeeds the buffer holds the marker line
\* "// C HEADER ENDS HERE." exactly once; the header section, from the one
\* opening of the include guard on the first line to its one closing, ends
\* right before the marker, and the implementation section starts right
\* after it.
C16_HeaderMarker ==
    (phase = "done" /\ err = "") =>
        /\ Cardinality(LinesOfKind("header_ends_here")) = 1
        /\ \A m \in LinesOfKind("header_ends_here") :
              /\ LinesOfKind("include_guard_open") = {1}
              /\ LinesOfKind("include_guard_close") = {m - 1}
              /\ m < Len(buffer) /\ buffer[m + 1].k = "status_is_error"
              /\ LinesOfKind("status_is_error") = {m + 1}

\* generate() has succeeded on a package with a status declaration and the
\* lines of two functions after the marker.
C16_Witness ==
    /\ phase = "done" /\ err = ""
    /\ statusList # <<>>
    /\ Cardinality(LinesOfKind("func_open")) = 2
    /\ \A m \in LinesOfKind("header_ends_here") : \A i \in LinesOfKind("func_open") : m < i

\* C17: when a step of the backend has returned an error (the collector, the
\* header emitter, the implementation emitter or a lowering) or clang-format
\* has, the callback returns that error and no output bytes, however much the
\* buffer holds; and the error ends the emission: when the lowering of a
\* function has failed, no line of a later function is in the buffer.
C17_NoPartialOutput ==
    /\ (phase = "returned" /\ (err # "" \/ call.err # ""))
          => /\ call.out = <<>>
             /\ call.err # ""
             /\ err # "" => call.err = err
    /\ (phase \in {"failed", "returned"} /\ err # "" /\ perFunc.funk # <<>>)
          => Cardinality(LinesOfKind("func_open")) = declIdx
    /\ (err # "" /\ perFunc.funk = <<>>) => LinesOfKind("func_open") = {}
    /\ (err = "bad status message") => buffer = <<>>

\* The callback has returned the error of the first function's lowering,
\* with the header and the constructors in the buffer and no line of the
\* second function.
C17_Witness ==
    /\ phase = "returned" /\ call.out = <<>>
    /\ call.err = "internal error: temporary variable count out of sync"
    /\ declIdx = 1 /\ Len(funcsOf("bothPubPri")) = 2
    /\ LinesOfKind("header_ends_here") # {} /\ LinesOfKind("ctor_open") # {}

\* The places of the lines of kind k that carry the given name, in the header
\* section (before the marker) and in the implementation section (after it).
InHeader(k, name) ==
    { i \in LinesOfKind(k) : buffer[i].name = name /\ \A m \in LinesOfKind("header_ends_here") : i < m }

InImpl(k, name) ==
    { i \in LinesOfKind(k) : buffer[i].name = name /\ \A m \in LinesOfKind("header_ends_here") : i > m }

\* Where the prototypes and the bodies of the constructor and the destructor
\* of the struct n are: in the header iff n is public and suspendible, in the
\* implementation section iff n is private and suspendible, each once; one
\* body of each in the implementation section iff n is suspendible.
CtorPlaces(n) ==
    /\ Cardinality(InHeader("ctor_prototype", CtorName(n.name)))
          = (IF n.public /\ n.suspendible THEN 1 ELSE 0)
    /\ Cardinality(InHeader("dtor_prototype", DtorName(n.name)))
          = (IF n.public /\ n.suspendible THEN 1 ELSE 0)
    /\ Cardinality(InImpl("ctor_prototype", CtorName(n.name)))
          = (IF ~n.public /\ n.suspendible THEN 1 ELSE 0)
    /\ Cardinality(InImpl("dtor_prototype", DtorName(n.name)))
          = (IF ~n.public /\ n.suspendible THEN 1 ELSE 0)
    /\ Cardinality(InImpl("ctor_open", CtorName(n.name))) = (IF n.suspendible THEN 1 ELSE 0)
    /\ Cardinality(InImpl("dtor_open", DtorName(n.name))) = (IF n.suspendible THEN 1 ELSE 0)
    /\ InHeader("ctor_open", CtorName(n.name)) = {}
    /\ InHeader("dtor_open", DtorName(n.name)) = {}

\* C20 as stated: when generate() succeeds the header section holds the
\* layout of a struct iff the struct is public, and the places of the
\* constructor and destructor prototypes and bodies are as above.
C20_HeaderContents ==
    (phase = "done" /\ err = "") =>
        \A i \in DOMAIN structList :
            LET n == structList[i]
            IN  /\ InHeader("struct_open", PkgIdent(<<"_", n.name>>)) # {} <=> n.public
                /\ CtorPlaces(n)

\* C20 amended: when generate() succeeds the header section holds the layout
\* of every struct, public or private, once, and the implementation section
\* holds none; the places of the constructor and destructor prototypes and
\* bodies are as above.
C20_HeaderContentsAmended ==
    (phase = "done" /\ err = "") =>
        \A i \in DOMAIN structList :
            LET n == structList[i]
            IN  /\ Cardinality(InHeader("struct_open", PkgIdent(<<"_", n.name>>))) = 1
                /\ InImpl("struct_open", PkgIdent(<<"_", n.name>>)) = {}
                /\ CtorPlaces(n)

\* generate() has succeeded on a package with a public suspendible struct and
\* a private suspendible one, whose layout is in the header and whose
\* prototypes are in the implementation section.
C20_Witness ==
    /\ phase = "done" /\ err = ""
    /\ structOf("bar").public /\ structOf("bar").suspendible
    /\ ~structOf("dec").public /\ structOf("dec").suspendible
    /\ InHeader("struct_open", PkgIdent(<<"_", "dec">>)) # {}
    /\ InImpl("ctor_prototype", CtorName("dec")) # {}
    /\ InHeader("ctor_prototype", CtorName("bar")) # {}

---------------------------------------------------------------------------
(* Features the backend does not implement. *)

\* A struct field that is an array of structs.
HasArrayOfStructs ==
    \E i \in DOMAIN structList : \E j \in DOMAIN structList[i].fields :
        LET x == structList[i].fields[j].xtype
        IN  x.decorator = "KeyOpenBracket" /\ inStructMap(x.inner[1].name)

\* C18: a package with a non-suspendible method call other than low_bits, a
\* struct field that is an array of structs, an array var with an
\* initializer, a unary operator on a non-constant operand or a slice
\* expression is not lowered: generate() does not return without an error.
C18_UnsupportedRejected ==
    (\/ HasArrayOfStructs
     \/ TheFunc.body[1] \in {StmtMethodCall, StmtArrayInit, StmtUnary, StmtUnaryNot, StmtSlice})
        => ~(phase = "done" /\ err = "")

---------------------------------------------------------------------------
(* Name mangling. *)

\* The status of the i-th enumerator: its keyword and its message.
StatusText(i) ==
    IF i <= NumBuiltIn THEN builtInStatuses[i]
    ELSE (IF files[i - NumBuiltIn].keyword = KeyError THEN S_error ELSE S_status)
            \o Unquoted(files[i - NumBuiltIn].message)

\* C19: two statuses of a package that differ in keyword or message text,
\* built-in or declared, have different enumerator names in the emitted enum.
C19_NoNameCollision ==
    HeaderWritten =>
        \A i, k \in DOMAIN Emitted :
            StatusText(i) # StatusText(k) => Emitted[i].name # Emitted[k].name

---------------------------------------------------------------------------
(* Properties of the jump labels. *)

RECURSIVE WhilesOf(_)
\* The loops of a block of loops and jumps, in source order (a loop before
\* the loops of its body).
WhilesOf(block) ==
    IF block = <<>> THEN <<>>
    ELSE (IF block[1].kind = "KWhile" THEN <<block[1]>> \o WhilesOf(block[1].body) ELSE <<>>)
         \o WhilesOf(Tail(block))

RECURSIVE JumpsOf(_)
\* The jumps of the block, in source order.
JumpsOf(block) ==
    IF block = <<>> THEN <<>>
    ELSE (CASE block[1].kind = "KWhile" -> JumpsOf(block[1].body)
            [] block[1].kind = "KJump" -> <<block[1]>>
            [] OTHER -> <<>>)
         \o JumpsOf(Tail(block))

\* The places of the lines of kind k among the lines L, in order.
PlacesOf(L, k) == SelectSeq([i \in DOMAIN L |-> i], LAMBDA i : L[i].k = k)

\* The place of the "}" that closes the "while (...) {" at place p.
ClosingOf(L, p) ==
    CHOOSE q \in (p + 1)..Len(L) :
        /\ L[q].k = "close_curly"
        /\ Cardinality({ h \in p..q : L[h].k = "while_open" })
             = Cardinality({ h \in p..q : L[h].k = "close_curly" })
        /\ \A r \in (p + 1)..(q - 1) :
              Cardinality({ h \in p..r : L[h].k = "while_open" })
                > Cardinality({ h \in p..r : L[h].k = "close_curly" })

LabelKinds == {"goto_label", "label_continue", "label_break"}

\* The label ids used in the first p lines.
LabelIdsUpTo(L, p) == { L[h].a : h \in { h \in 1..p : L[h].k \in LabelKinds } }

\* The labels of the i-th function of the package are as C21 says.
JumpLabelsOf(i) ==
    LET L == FuncBodyLines(i)
        body == funcsOf("bothPubPri")[i].body
        ws == WhilesOf(body)
        js == JumpsOf(body)
        wl == PlacesOf(L, "while_open")
        gl == PlacesOf(L, "goto_label")
        w(id) == CHOOSE h \in DOMAIN ws : ws[h].id = id
        Labelled(h) == ws[h].hasContinue \/ ws[h].hasBreak
        \* the id on the labels of the h-th loop
        IdOf(h) == IF ws[h].hasContinue THEN L[wl[h] - 1].a ELSE L[ClosingOf(L, wl[h]) + 1].a
    IN  /\ Len(wl) = Len(ws) /\ Len(gl) = Len(js)
        \* ids are 0, 1, 2, ... in order of first use
        /\ \A p \in DOMAIN L : \E n \in 0..p : LabelIdsUpTo(L, p) = 0..(n - 1)
        \* a loop's labels stand right before its "while (" and right after its "}"
        /\ \A h \in DOMAIN ws :
              /\ ws[h].hasContinue => wl[h] > 1 /\ L[wl[h] - 1].k = "label_continue"
              /\ ws[h].hasBreak =>
                    /\ ClosingOf(L, wl[h]) < Len(L)
                    /\ L[ClosingOf(L, wl[h]) + 1].k = "label_break"
                    /\ L[ClosingOf(L, wl[h]) + 1].a = IdOf(h)
        \* distinct loops have distinct ids
        /\ \A h, g \in DOMAIN ws : (h # g /\ Labelled(h) /\ Labelled(g)) => IdOf(h) # IdOf(g)
        \* there are no other labels than these
        /\ Len(PlacesOf(L, "label_continue")) = Cardinality({ h \in DOMAIN ws : ws[h].hasContinue })
        /\ Len(PlacesOf(L, "label_break")) = Cardinality({ h \in DOMAIN ws : ws[h].hasBreak })
        \* every goto goes to the label of the loop its jump names
        /\ \A k \in DOMAIN js :
              /\ L[gl[k]].a = IdOf(w(js[k].jumpTarget))
              /\ L[gl[k]].name = <<IF js[k].keyword = "KeyBreak" THEN "break" ELSE "continue">>
              /\ Cardinality({ h \in DOMAIN L :
                      /\ L[h].k = (IF js[k].keyword = "KeyBreak" THEN "label_break"
                                   ELSE "label_continue")
                      /\ L[h].a = L[gl[k]].a }) = 1

\* The state is one of the statement loop on a run of loops.
RunOfLoops == Len(files) = 2

\* The labelled loops among the loops of a run lowered so far, the one that
\* failed included: one for each loop lowered before the first step, and
\* for each later loop the loops of the run's statement that have a label.
LabelsNeeded ==
    LET before == IF declIdx >= maxJumpTargets - 2 THEN maxJumpTargets - 2 ELSE 0
        ws == WhilesOf(files[2].body)
    IN  before + (declIdx - before)
                   * Cardinality({ h \in DOMAIN ws : ws[h].hasContinue \/ ws[h].hasBreak })

\* C21: in every function of an emitted package the label ids are 0, 1, 2,
\* ... in order of first use, starting again at 0 in each function; a
\* loop's continue label stands right before its "while (", its break label
\* right after its closing brace, both with the loop's one id; distinct
\* loops have distinct ids; and every goto names the one label of the loop
\* its jump targets.  On a run of loops the lowering fails with "too many
\* jump targets" exactly when a 1,000,001st loop needs a label, and until
\* then every labelled loop has its entry.
C21_JumpLabels ==
    /\ (phase = "done" /\ err = "" /\ ~RunOfLoops) =>
          \A i \in DOMAIN funcsOf("bothPubPri") : JumpLabelsOf(i)
    /\ RunOfLoops =>
          /\ (err = "too many jump targets") <=> (LabelsNeeded > maxJumpTargets)
          /\ Len(perFunc.jumpTargets)
               = (IF LabelsNeeded > maxJumpTargets THEN maxJumpTargets ELSE LabelsNeeded)

\* A package is emitted whose first function has an inner loop that breaks
\* out of the outer one before the outer loop's label is written, and a
\* second loop that gets the id 1.
C21_Witness ==
    /\ phase = "done" /\ err = "" /\ ~RunOfLoops
    /\ Len(funcsOf("bothPubPri")[1].body) = 2
    /\ LET b == funcsOf("bothPubPri")[1].body
       IN  /\ ~b[1].hasContinue /\ b[1].hasBreak
           /\ Len(b[1].body) = 1 /\ b[1].body[1].kind = "KWhile"
           /\ b[1].body[1].body = <<Jump("KeyBreak", 1)>>
           /\ b[2].hasContinue
    /\ LabelIdsUpTo(FuncBodyLines(1), Len(FuncBodyLines(1))) = {0, 1}
    /\ LabelIdsUpTo(FuncBodyLines(2), Len(FuncBodyLines(2))) = {0}

---------------------------------------------------------------------------
(* Properties of the lowering of if / else-if chains. *)

\* The else-if links lowered so far, the one that failed included.
ElseIfs == declIdx - 1

\* C22: lowering an if / else-if chain fails with the error of too many
\* nested ifs iff the chain has more than 1,000 else-if links; and when the
\* chain is lowered, the lines written close as many braces as they open.
C22_IfChainCap ==
    /\ (err = "too many nested if's") <=> (ElseIfs > maxCloseCurly)
    /\ (phase = "done") => (hist.open = hist.close)

\* The error is returned exactly on the 1,000th else-if whose condition is
\* suspendible.
ElseIfCapSuspendibleOnly ==
    (err = "too many nested if's") <=>
        /\ call.nCloseCurly = maxCloseCurly
        /\ Suspendible(files[2].body[1 + ((declIdx - 1) % 2)].condition)
        /\ buffer[Len(buffer)].k = "open_curly"

\* A lowered chain is balanced.
BracesBalanced == (phase = "done") => (hist.open = hist.close /\ hist.open >= declIdx)

---------------------------------------------------------------------------
(* Properties of the declarations of local variables. *)

RECURSIVE CountVars(_, _)
\* The var statements of the name in the block, at any depth: in the bodies
\* of an if and of the links after it, and in the bodies of loops.
CountVars(block, name) ==
    IF block = <<>> THEN 0
    ELSE (CASE block[1].kind = "KVar" -> IF block[1].name = name THEN 1 ELSE 0
            [] block[1].kind = "KIf" ->
                  CountVars(block[1].bodyIfTrue, name) + CountVars(block[1].bodyIfFalse, name)
                    + CountVars(block[1].elseIf, name)
            [] block[1].kind = "KWhile" -> CountVars(block[1].body, name)
            [] OTHER -> 0)
         + CountVars(Tail(block), name)

RECURSIVE BlockDepth(_)
\* How deep the blocks inside the block go: 0 for a block with no if and no loop.
BlockDepth(block) ==
    IF block = <<>> THEN 0
    ELSE LET o == block[1]
             inner == CASE o.kind = "KIf" -> 1
                        [] o.kind = "KWhile" -> 1 + BlockDepth(o.body)
                        [] OTHER -> 0
             rest == BlockDepth(Tail(block))
         IN  IF inner > rest THEN inner ELSE rest

VarNames == {"a", "b", "c", "d", "e", "f", "g", "h", "i"}

\* The name a declaration line declares.
DeclaredName(l) == l.text[(CHOOSE i \in DOMAIN l.text : l.text[i] = vPrefix) + 1]

\* The lines of the entry checks of a function.
PrologueKinds ==
    {"if_not_self", "status_decl_self", "status_decl", "if_status_error", "if_bad_magic",
     "if_self_status_error", "if_bad_magic_self", "if_bad_args", "if_bad_args_self",
     "if_bad_args_void"}

\* The state is one of the descent into a nest of loops.
NestOfLoops == call.fn \in {"writeVars", "writeStatement"}

BodyTooDeep == "body recursion depth too large"

\* C23: in an emitted function every var statement of the body, at any
\* depth, has exactly one declaration, and the declarations stand together
\* after the lines of the entry checks and before the first line of the
\* body's statements.  On a nest of loops the declarations fail with the
\* error of a body too deep exactly when a block of the nest is more than
\* MaxBodyDepth blocks inside the function's body; the statement lowering
\* refuses the same depths, so that it never returns that error for a nest
\* the declarations passed.
C23_LocalHoisting ==
    /\ (phase = "done" /\ err = "" /\ ~NestOfLoops) =>
          LET L == FuncBodyLines(1)
              D == PlacesOf(L, "var_decl")
              body == funcsOf("bothPubPri")[1].body
          IN  /\ \A v \in VarNames :
                    Cardinality({ k \in DOMAIN D : DeclaredName(L[D[k]]) = v })
                       = CountVars(body, v)
              /\ \A k \in DOMAIN D : DeclaredName(L[D[k]]) \in VarNames
              /\ \E a \in 0..Len(L) :
                    /\ \A h \in 1..a : L[h].k \in PrologueKinds
                    /\ \A k \in DOMAIN D : D[k] = a + k
                    /\ \A h \in (a + Len(D) + 1)..Len(L) : L[h].k \notin PrologueKinds
    /\ NestOfLoops =>
          /\ (err = BodyTooDeep) =>
                (phase = "failed" /\ call.fn = "writeVars"
                   /\ call.depth + BlockDepth(files[2].body) > MaxBodyDepth)
          /\ (call.fn = "writeStatement") =>
                (declIdx + BlockDepth(files[2].body) <= MaxBodyDepth)
          /\ (phase = "vars") => (call.depth <= MaxBodyDepth + 1)
          /\ (writeVars(NewState(<<>>), <<>>, call.depth).err = BodyTooDeep)
                <=> (writeStatement(NewState(<<>>), StmtSetX, call.depth).err = BodyTooDeep)
          /\ (writeVars(NewState(<<>>), <<>>, call.depth).err = BodyTooDeep)
                <=> (call.depth > MaxBodyDepth)

\* A public function is emitted with declarations for the var statements
\* of an else-if chain and of a loop's body, after its entry checks.
C23_Witness ==
    /\ phase = "done" /\ err = "" /\ ~NestOfLoops
    /\ funcsOf("bothPubPri")[1].public
    /\ Len(funcsOf("bothPubPri")[1].body) = 2
    /\ CountVars(funcsOf("bothPubPri")[1].body, "f") = 1
    /\ CountVars(funcsOf("bothPubPri")[1].body, "g") = 1
    /\ Len(PlacesOf(FuncBodyLines(1), "var_decl")) = 4
    /\ FuncBodyLines(1)[1].k \in PrologueKinds

\* The declarations of a nest of MaxBodyDepth + 1 loops have failed.
NestRefused ==
    /\ NestOfLoops /\ phase = "failed" /\ err = BodyTooDeep
    /\ declIdx = MaxBodyDepth + 1 /\ call.depth = MaxBodyDepth + 1

\* The statement lowering fails in a nest the declarations passed, with the
\* error of an expression too deep.
NestExprTooDeep ==
    /\ NestOfLoops /\ call.fn = "writeStatement" /\ phase = "failed"
    /\ err = "expression recursion depth too large"

\* A nest of MaxBodyDepth loops around a var statement is lowered.
NestLowered ==
    /\ NestOfLoops /\ phase = "done" /\ declIdx = MaxBodyDepth
    /\ files[2].body = <<VarU8("a")>>

---------------------------------------------------------------------------
(* Properties of the emitted reads and writes. *)

\* The bytes a slice of this.stack stands for, with s the value of the
\* local s: this.stack[s:] or this.stack[s:hi].
Payload(x, s) ==
    SubSeq(StackBytes, s + 1, IF x.rhs = <<>> THEN Len(StackBytes) ELSE x.rhs[1].constValue[1])

\* What the statements of a body do to the buffers, as the calls are
\* specified: r = [io, s, status]; a call that cannot proceed sets the
\* status and ends the run with the buffers as they are.
RECURSIVE Specified(_, _, _)
Specified(body, i, r) ==
    IF i > Len(body) \/ r.status # <<>> THEN r
    ELSE LET o == body[i]
             src == r.io.src
             dst == r.io.dst
             Stop(status) == [r EXCEPT !.status = status]
             next ==
               CASE o.kind = "KAssign" /\ o.lhs = LocalS ->
                       [r EXCEPT !.s = o.rhs.constValue[1]]
                 [] o.kind = "KAssign" ->
                       IF src.ri >= src.wi
                       THEN Stop(IF src.closed THEN <<"_","e","r","r","o","r","_","u","n","e","x","p","e","c","t","e","d","_","e","o","f">>
                                 ELSE <<"_","s","t","a","t","u","s","_","s","h","o","r","t","_","r","e","a","d">>)
                       ELSE [r EXCEPT !.io.src.ri = @ + 1]
                 [] o.id1 = "" /\ o.lhs[1].id1 = "write_u8" ->
                       IF dst.wi >= dst.len THEN Stop(<<"_","s","t","a","t","u","s","_","s","h","o","r","t","_","w","r","i","t","e">>)
                       ELSE [r EXCEPT !.io.dst.ptr[dst.wi + 1] =
                                          o.args[1].value.constValue[1],
                                      !.io.dst.wi = @ + 1]
                 [] OTHER ->
                       LET bytes == Payload(o.args[1].value, r.s)
                       IN  IF dst.closed THEN Stop(<<"_","e","r","r","o","r","_","c","l","o","s","e","d","_","f","o","r","_","w","r","i","t","e","s">>)
                           ELSE IF dst.len - dst.wi < Len(bytes)
                           THEN Stop(<<"_","s","t","a","t","u","s","_","s","h","o","r","t","_","w","r","i","t","e">>)
                           ELSE [r EXCEPT !.io.dst.ptr =
                                     [j \in DOMAIN @ |->
                                         IF dst.wi < j /\ j <= dst.wi + Len(bytes)
                                         THEN bytes[j - dst.wi] ELSE @[j]],
                                          !.io.dst.wi = @ + Len(bytes)]
         IN  Specified(body, i + 1, next)

\* The status a run ends with, as a value of the emitted enum.
SpecifiedStatus(r) ==
    IF r.status = <<>> THEN 0 ELSE StatusValue(buffer, PkgIdent(r.status))

\* The call ran the body: no error was latched in the struct.
BodyRan == call.fn = "run" /\ And1(call.mem0[<<"status">>]) = 0

\* C24: a call of the emitted function keeps src.ri <= src.wi and
\* dst.wi <= dst.len, and leaves the buffers as its reads and writes are
\* specified to: read_u8 takes one byte if ri < wi, write_u8 stores one byte
\* if wi < len, write copies its payload if dst is not closed and has room
\* for it and advances wi by the payload's size; the first call that cannot
\* proceed ends the function with its status, and the indices and contents
\* are as they were before that call.
C24_BufferIndexSafety ==
    /\ io.src.ri <= io.src.wi /\ io.dst.wi <= io.dst.len
    /\ BodyRan =>
          LET r == Specified(funcsOf("pubOnly")[1].body, 1,
                             [io |-> call.io0, s |-> 0, status |-> <<>>])
          IN  io = r.io /\ call.ret = <<SpecifiedStatus(r)>>
    /\ (call.fn = "run" /\ ~BodyRan) => io = call.io0

\* The body has a write of this.stack[s:2].
WritesSliceWithEnd ==
    \E i \in DOMAIN funcsOf("pubOnly")[1].body :
        LET o == funcsOf("pubOnly")[1].body[i]
        IN  o.kind = "KExpr" /\ o.callSuspendible /\ o.args[1].value.id0 = "KeyColon"
            /\ o.args[1].value.rhs # <<>>

\* The buffers are as specified after every call of a function whose writes
\* of the stack are all of this.stack[s:].
BufferIndexSafetyOfStackTail ==
    /\ io.src.ri <= io.src.wi /\ io.dst.wi <= io.dst.len
    /\ (BodyRan /\ ~WritesSliceWithEnd) =>
          LET r == Specified(funcsOf("pubOnly")[1].body, 1,
                             [io |-> call.io0, s |-> 0, status |-> <<>>])
          IN  io = r.io /\ call.ret = <<SpecifiedStatus(r)>>
    /\ (call.fn = "run" /\ ~BodyRan) => io = call.io0

\* A write of the stack has copied bytes after a read took one.
StackWritten ==
    /\ BodyRan /\ ~WritesSliceWithEnd /\ call.ret = <<0>>
    /\ io.dst.wi = call.io0.dst.wi + 3 /\ io.src.ri = call.io0.src.ri + 1

---------------------------------------------------------------------------
(* Properties of the references to the receiver. *)

\* The lines writeFuncImpl writes that name self: the NULL check, the read
\* of the latched status and its test, the magic check and the write-back.
SelfKinds ==
    {"if_not_self", "status_decl_self", "if_status_error", "if_bad_magic",
     "if_self_status_error", "if_bad_magic_self", "if_bad_args_self", "cleanup0_label"}

SelfLines == { i \in DOMAIN FuncLines : FuncLines[i].k \in SelfKinds }

\* C25: the lines of an emitted function that name self (the NULL check,
\* the read of the latched status, the magic check and the write-back of
\* the status) are written only for a function with a receiver; a public
\* suspendible function without one declares status as ok and has none of them.
C25_ReceiverReferences ==
    (Lowered /\ TheFunc.receiver = "") =>
        /\ SelfLines = {}
        /\ (TheFunc.public /\ TheFunc.suspendible) =>
              \E i \in DOMAIN FuncLines :
                  /\ FuncLines[i].k = "status_decl"
                  /\ FuncLines[i].name = PkgIdent(<<"_","s","t","a","t","u","s","_","o","k">>)

\* The lines that name self in a function without a receiver are the magic
\* check and the write-back of a public suspendible function, and no others.
SelfLinesWithoutReceiver ==
    (Lowered /\ TheFunc.receiver = "") =>
        /\ { FuncLines[i].k : i \in SelfLines }
             = (IF TheFunc.public /\ TheFunc.suspendible
                THEN {"if_bad_magic", "cleanup0_label"} ELSE {})
        /\ TheFunc.suspendible =>
              \E i \in DOMAIN FuncLines :
                  /\ FuncLines[i].k = "status_decl"
                  /\ FuncLines[i].name = PkgIdent(<<"_","s","t","a","t","u","s","_","o","k">>)

---------------------------------------------------------------------------
(* The while statement with a suspendible call in its condition. *)

\* The body holds, at its top level, a while statement whose condition
\* contains a suspendible call.
SuspendibleWhileAt(i) ==
    /\ TheFunc.body[i].kind = "KWhile"
    /\ SourceOrderCalls(TheFunc.body[i].condition) # <<>>

HasSuspendibleWhile ==
    /\ Len(funcsOf("bothPubPri")) = 1
    /\ \E i \in DOMAIN TheFunc.body : SuspendibleWhileAt(i)

\* The errors of kind Unsupported: a language feature the backend does not
\* implement.
UnsupportedErrors ==
    { "TODO: generate code for foo() when foo is not a ? call-suspendible",
      "TODO: array initializers for non-zero default values",
      "cannot convert Puffs call to C",
      "unrecognized token.Key for writeExprOther",
      "unrecognized ast.Kind for writeStatement" }

\* The while headers of the output that use a temporary.
WhileHeadersWithTemp ==
    { i \in DOMAIN buffer :
        /\ buffer[i].k = "while_open"
        /\ \E j \in DOMAIN buffer[i].text : buffer[i].text[j] = tPrefix }

\* C26: a while statement whose condition contains a suspendible call is
\* rejected: the run ends with an error of kind Unsupported, never with an
\* internal-invariant error and never with success, and no successful output
\* has a while header that uses a temporary t_N.
C26_WhileConditionRejected ==
    /\ (Generated /\ HasSuspendibleWhile) =>
          (phase = "failed" /\ err \in UnsupportedErrors)
    /\ (phase = "done" /\ err = "") => WhileHeadersWithTemp = {}

\* The parts of C26, one by one.
SuspendibleWhileNeverLowered ==
    (Generated /\ HasSuspendibleWhile) => phase = "failed"

SuspendibleWhileNeverInternalError ==
    (Generated /\ HasSuspendibleWhile) =>
        err # "internal error: temporary variable count out of sync"

NoTempInWhileHeader ==
    (phase = "done" /\ err = "") => WhileHeadersWithTemp = {}

\* What the program does: a while with a suspendible condition ends the run
\* with the internal error, unless a temporary left by an earlier expression
\* statement is there for the header to use.
SuspendibleWhileOutcome ==
    (Generated /\ HasSuspendibleWhile) =>
        \/ err = "internal error: temporary variable count out of sync"
        \/ /\ \E i \in DOMAIN TheFunc.body : TheFunc.body[i] = ReadU8
           /\ (phase = "done" => WhileHeadersWithTemp # {})

---------------------------------------------------------------------------
(* The temporaries of a lowered function. *)

\* The definitions and references of temporaries in the emitted lines, in
\* the order of the text: the line that declares t_N defines it, every other
\* t_N is a reference.
RECURSIVE RefsOfText(_, _)
RefsOfText(text, j) ==
    IF j > Len(text) THEN <<>>
    ELSE IF text[j] = tPrefix /\ j < Len(text)
         THEN << <<"ref", text[j + 1]>> >> \o RefsOfText(text, j + 2)
         ELSE RefsOfText(text, j + 1)

RECURSIVE TempEventsOfLines(_, _)
TempEventsOfLines(ls, i) ==
    IF i > Len(ls) THEN <<>>
    ELSE (IF ls[i].k = "read_u8_load" THEN << <<"def", ToString(ls[i].a)>> >>
          ELSE RefsOfText(ls[i].text, 1))
         \o TempEventsOfLines(ls, i + 1)

TempEvents == TempEventsOfLines(FuncLines, 1)

\* The calls of a statement that produce a temporary (in.src.read_u8?()), and
\* those of them that stand inside an enclosing expression or statement that
\* uses their value.
ReadsOf(calls) == Cardinality({ i \in DOMAIN calls : calls[i] = "read_u8" })

ReadsOfStatement(o) ==
    CASE o.kind = "KAssign" -> ReadsOf(SourceOrderCalls(o.lhs) \o SourceOrderCalls(o.rhs))
      [] o.kind = "KVar"    -> ReadsOf(SourceOrderCallsOfAll(o.value, 1))
      [] o.kind = "KExpr"   -> ReadsOf(SourceOrderCalls(o))
      [] o.kind = "KWhile"  -> ReadsOf(SourceOrderCalls(o.condition))
      [] OTHER              -> 0

UsedReadsOfStatement(o) ==
    IF o.kind = "KExpr" /\ isInSrcReadU8(o) THEN 0 ELSE ReadsOfStatement(o)

\* What the temporaries of a body are to be: the calls are numbered in source
\* order, each has its block before the line of its statement, and that line
\* names each temporary where its call stands.
RECURSIVE ExpectedTempEvents(_, _, _)
ExpectedTempEvents(body, i, k) ==
    IF i > Len(body) THEN <<>>
    ELSE [j \in 1..ReadsOfStatement(body[i]) |-> <<"def", ToString(k + j - 1)>>]
         \o [j \in 1..UsedReadsOfStatement(body[i]) |-> <<"ref", ToString(k + j - 1)>>]
         \o (IF body[i].kind = "KWhile" THEN ExpectedTempEvents(body[i].body, 1, k + ReadsOfStatement(body[i]))
             ELSE <<>>)
         \o ExpectedTempEvents(body, i + 1,
                               k + ReadsOfStatement(body[i])
                                 + (IF body[i].kind = "KWhile"
                                    THEN Len(ExpectedTempEvents(body[i].body, 1, 0)) \div 2
                                    ELSE 0))

TimesIn(events, e) == Cardinality({ i \in DOMAIN events : events[i] = e })

TempsNamed == { TempEvents[i][2] : i \in DOMAIN TempEvents }

\* C27: in every function that is emitted, each temporary t_k is defined by
\* exactly one hoisted block and referenced exactly once, after its
\* definition and at the place of the suspendible call whose block defined
\* it; and 0 <= tempR <= tempW at every point of the emission.
C27_TemporaryCorrespondence ==
    /\ Lowered =>
          /\ \A t \in TempsNamed :
                /\ TimesIn(TempEvents, <<"def", t>>) = 1
                /\ TimesIn(TempEvents, <<"ref", t>>) = 1
                /\ \A i, j \in DOMAIN TempEvents :
                      (TempEvents[i] = <<"def", t>> /\ TempEvents[j] = <<"ref", t>>) => i < j
          /\ TempEvents = ExpectedTempEvents(TheFunc.body, 1, 0)
    /\ 0 <= perFunc.tempR /\ perFunc.tempR <= perFunc.tempW

\* The parts of C27, one by one.
TempsDefinedOnceUsedOnce ==
    Lowered => \A t \in TempsNamed :
                  /\ TimesIn(TempEvents, <<"def", t>>) = 1
                  /\ TimesIn(TempEvents, <<"ref", t>>) = 1

TempsUsedAfterDefined ==
    Lowered => \A t \in TempsNamed : \A i, j \in DOMAIN TempEvents :
                  (TempEvents[i] = <<"def", t>> /\ TempEvents[j] = <<"ref", t>>) => i < j

TempsUsedAtTheirCall ==
    Lowered => TempEvents = ExpectedTempEvents(TheFunc.body, 1, 0)

TempCountsOrdered == 0 <= perFunc.tempR /\ perFunc.tempR <= perFunc.tempW

\* Without an expression statement in.src.read_u8?() and without a
\* suspendible call in an argument list, the temporaries are as C27 says.
RECURSIVE CallInArgs(_)
CallInArgs(n) ==
    \/ \E i \in DOMAIN n.args : SourceOrderCalls(n.args[i]) # <<>>
    \/ \E i \in DOMAIN SubNodes(n) : CallInArgs(SubNodes(n)[i])

StatementAside(o) ==
    \/ o.kind = "KExpr" /\ (isInSrcReadU8(o) \/ CallInArgs(o))
    \/ o.kind = "KAssign" /\ (CallInArgs(o.lhs) \/ CallInArgs(o.rhs))
    \/ o.kind = "KWhile"

TempsUsedAtTheirCallElsewhere ==
    (Lowered /\ \A i \in DOMAIN TheFunc.body : ~StatementAside(TheFunc.body[i]))
        => TempEvents = ExpectedTempEvents(TheFunc.body, 1, 0)

\* A function with temporaries is emitted.
TempsEmitted == Lowered /\ TempsNamed # {}

---------------------------------------------------------------------------
(* The status of a call that runs to the end. *)

\* The lines of the emitted function puffs_foo_bar_run.
RunLines == BodyLines(buffer, "func_open", FuncName(funcsOf("pubOnly")[1]))

\* The last call ran every line from the first to the write-back of the
\* status: it passed the checks on entry, no suspendible call failed and no
\* return statement was executed.
RanToTheEnd ==
    /\ call.fn = "run"
    /\ \A i \in DOMAIN call.trace : call.trace[i] = RunLines[i].k
    /\ \E i \in DOMAIN call.trace : call.trace[i] = "cleanup0_label"

EnteredValid ==
    /\ call.fn = "run"
    /\ And1(call.mem0[<<"status">>]) = 0
    /\ call.mem0[<<"magic">>] = PUFFS_MAGIC

RecoverableStatuses ==
    { StatusValue(buffer, PkgIdent(<<"_","s","t","a","t","u","s","_","s","h","o","r","t","_","r","e","a","d">>)),
      StatusValue(buffer, PkgIdent(<<"_","s","t","a","t","u","s","_","s","h","o","r","t","_","w","r","i","t","e">>)) }

\* C28: a call of an emitted public suspendible method with a receiver that
\* is entered with a status that is not an error and a valid magic, and whose
\* body runs to the end, returns ok (0) and stores ok in the struct's status,
\* also when the struct held a short read or a short write from the call
\* before.
C28_SuccessReturnsOk ==
    (EnteredValid /\ RanToTheEnd) =>
        (call.ret = <<0>> /\ mem[<<"status">>] = 0)

\* The same for a call that found the status ok.
SuccessFromOkReturnsOk ==
    (EnteredValid /\ RanToTheEnd /\ call.mem0[<<"status">>] = 0) =>
        (call.ret = <<0>> /\ mem[<<"status">>] = 0)

\* What the program does: the call returns, and stores, the status it found.
SuccessReturnsStatusFound ==
    (EnteredValid /\ RanToTheEnd) =>
        (call.ret = <<call.mem0[<<"status">>]>> /\ mem[<<"status">>] = call.mem0[<<"status">>])

\* A call that found a short read or a short write ran to the end.
ResumedToTheEnd ==
    Built /\ EnteredValid /\ RanToTheEnd /\ call.mem0[<<"status">>] \in RecoverableStatuses

---------------------------------------------------------------------------
(* The constructor and destructor calls for embedded structs. *)

\* The lines of kind k that name the function name.
LinesNaming(k, name) == { i \in DOMAIN buffer : buffer[i].k = k /\ buffer[i].name = name }

\* The struct whose constructor or destructor is called (or defined) by the
\* line i.
StructCalledAt(i) ==
    CHOOSE n \in { structList[j] : j \in DOMAIN structList } :
        buffer[i].name \in { CtorName(n.name), DtorName(n.name) }

\* The opening line of the function body the line i stands in.
OpeningOf(i) ==
    CHOOSE c \in DOMAIN buffer :
        /\ c < i /\ buffer[c].k \in {"ctor_open", "dtor_open"}
        /\ \A d \in (c + 1)..(i - 1) : buffer[d].k \notin {"ctor_open", "dtor_open"}

SubCalls == { i \in DOMAIN buffer : buffer[i].k \in {"ctor_call", "dtor_call"} }

\* The function called at line i is declared and defined in the output, and
\* its definition stands before the body that calls it.
CalleeEmitted(i) ==
    LET open == IF buffer[i].k = "ctor_call" THEN "ctor_open" ELSE "dtor_open"
        proto == IF buffer[i].k = "ctor_call" THEN "ctor_prototype" ELSE "dtor_prototype"
    IN  /\ LinesNaming(proto, buffer[i].name) # {}
        /\ \E j \in LinesNaming(open, buffer[i].name) : j < OpeningOf(i)

\* C29: every constructor or destructor call in a constructor or destructor
\* body names a struct whose constructor and destructor the backend emits:
\* the call is there only for a field whose struct type is suspendible, so no
\* undeclared function is called; and the called struct's own functions stand
\* before those of the struct that holds it.
C29_SubStructCalls ==
    \A i \in SubCalls : StructCalledAt(i).suspendible /\ CalleeEmitted(i)

\* The same for the calls that name a suspendible struct.
SuspendibleSubStructCalls ==
    \A i \in SubCalls : StructCalledAt(i).suspendible => CalleeEmitted(i)

\* What the program does: a suspendible struct's constructor and destructor
\* call those of every field whose type names a struct of the package.
SubStructCallsForAllFields ==
    \A n \in { structList[j] : j \in DOMAIN structList } :
        (n.suspendible /\ phase \in {"funcs", "done"}) =>
            \A k \in DOMAIN n.fields :
                (IsInnermost(n.fields[k].xtype) /\ inStructMap(n.fields[k].xtype.name)) =>
                    \E i \in SubCalls :
                        /\ buffer[i].name = CtorName(n.fields[k].xtype.name)
                        /\ buffer[OpeningOf(i)].name = CtorName(n.name)

\* A call for a field of a struct type that is not suspendible is emitted.
CallOfMissingConstructor ==
    \E i \in SubCalls : ~StructCalledAt(i).suspendible

---------------------------------------------------------------------------
(* decode_mcu across calls and refills. *)

Returned == call.pc = "idle" /\ call.ret # <<>>

\* (b, z) comes before (c, y): an earlier block, or an earlier coefficient of
\* the same block.
Before(b, z, c, y) == b < c \/ (b = c /\ z < y)

\* The coefficients decoded for the MCU in hand were decoded in order, none
\* twice, and all come before the place mcu_current_block and mcu_zig_index
\* name (once the last block is done, mcu_current_block is back at 0).
DecodedOnceInOrder ==
    /\ \A i, j \in DOMAIN hist.writes :
          i < j => Before(hist.writes[i].block, hist.writes[i].z,
                          hist.writes[j].block, hist.writes[j].z)
    /\ (call.pc \in {"idle", "block", "dc", "ac"} /\ ~(Returned /\ call.ret = <<0>>)
        /\ ~(call.pc = "idle" /\ call.ret = <<>>)) =>
          \A i \in DOMAIN hist.writes :
              Before(hist.writes[i].block, hist.writes[i].z,
                     mem.mcu_current_block, mem.mcu_zig_index)

\* The call in hand, or the last call, went on where the call before it had
\* stopped: none of its coefficients comes before the block and coefficient
\* that call named.
ResumedWhereNamed ==
    \A i \in DOMAIN hist.writes :
        i > hist.from =>
            ~Before(hist.writes[i].block, hist.writes[i].z, hist.at.block, hist.at.z)

\* The first coefficient of each block of the MCU was decoded.
AllBlocksDecoded ==
    \A b \in 0..(mem.mcu_num_blocks - 1) :
        \E i \in DOMAIN hist.writes : hist.writes[i].block = b /\ hist.writes[i].z = 0

\* C30: across the calls of decode_mcu and the refills between them, the
\* function returns only 0, 1 or 2; mcu_zig_index stays in 0..63 and z in
\* 0..78; a block is written only at an index mcu_current_block below
\* mcu_num_blocks, itself at most 10; when the function returns 1,
\* mcu_current_block and mcu_zig_index name the block and the coefficient at
\* which the next call goes on, and no coefficient is decoded twice; when it
\* returns 0, all blocks of the MCU were decoded and mcu_current_block and
\* mcu_zig_index are 0; and bitstream_ri <= bitstream_wi after every call
\* that does not return 2.
C30_McuResumption ==
    /\ Returned => call.ret \in { <<0>>, <<1>>, <<2>> }
    /\ mem.mcu_zig_index \in 0..63
    /\ call.pc # "idle" => call.z \in 0..78
    /\ \A i \in DOMAIN hist.writes :
          hist.writes[i].block < mem.mcu_num_blocks /\ hist.writes[i].block < 10
    /\ DecodedOnceInOrder
    /\ ResumedWhereNamed
    /\ (Returned /\ call.ret = <<1>>) =>
          /\ hist.left < 8
          /\ mem.mcu_current_block < mem.mcu_num_blocks
    /\ (Returned /\ call.ret = <<0>>) =>
          /\ AllBlocksDecoded
          /\ mem.mcu_current_block = 0 /\ mem.mcu_zig_index = 0
    /\ (Returned /\ call.ret # <<2>>) => mem.bitstream_ri <= mem.bitstream_wi

\* An MCU of two blocks was decoded in more than one call: a call returned 1
\* with a part of the MCU decoded, a later one went on and returned 0; a
\* coefficient was decoded at index 78 of the zig-zag order.
C30_Witness ==
    /\ Returned /\ call.ret = <<0>> /\ hist.resumed
    /\ mem.mcu_num_blocks = 2
    /\ \E i \in DOMAIN hist.writes : hist.writes[i].z = 78

\* A call returned 2.
ReturnedInternalError == Returned /\ call.ret = <<2>>

\* A symbol was decoded from a code of more than 8 bits.
LongCodeDecoded == call.pc = "ac" /\ call.n_bits < 40

====
